---------------------------- MODULE Spec2Model ----------------------------
(***************************************************************************)
(* A model of scrypted-reolink-videoclips: the calendar-day splitter and   *)
(* the bit-packed filename decoder of utils.ts, the session handling of    *)
(* ReolinkCameraClient (client.ts, both revisions kept in the file), and   *)
(* the filesystem scan and the clip listing of cameraMixin.ts, the         *)
(* webhooks of onRequest (main.ts), the thumbnail cache of                 *)
(* getThumbnailMediaObject (utils.ts) and the clip URLs of getVideoClipUrl *)
(* (client.ts).                                                            *)
(*                                                                         *)
(* Each component has its own variables, initial condition and next-state  *)
(* relation; a specification runs one component and pins the others.       *)
(***************************************************************************)
EXTENDS Integers, Sequences, FiniteSets, TLC

VARIABLES
    \* splitDateRangeByDay (utils.ts)
    zone, start, end, splitPc, ranges,
    \* parseVideoclipName (utils.ts)
    fileName, flagAssign, parsePc, parsed,
    \* ReolinkCameraClient (client.ts)
    variant, now, parameters, tokenLease, loggingIn, logins, failed,
    callOp, callPc, callSaw, callLogin, callBuilt,
    \* startFtpScan and getVideoClips, ftp branch (cameraMixin.ts)
    fsPresent, fsChanges, filenamePrefix, heap, nextRef, ftpScanData, published,
    scan, lastPass, readPc, readRef, readIdx, readSeen, options, clock, videoclips,
    \* getVideoClips, remote branch (cameraMixin.ts)
    listPc, hasParameters, responses, allSearchedElements, listClock, remoteClips,
    searches,
    \* onRequest (main.ts)
    request, httpPc, sent, logged, upstream, sendVideo,
    \* getThumbnailMediaObject (utils.ts)
    cache, tpc, thumbnailMo, started, gen, alone, writers,
    \* getVideoClipUrl (client.ts)
    urlRevision, videoclipPath, clientToken, urlPc, urlResult,
    \* constructor, checkFtpScan, release (cameraMixin.ts)
    mixinRevision, mixinPc, storage, ftpScanTimeout, fetchTokenInterval, intervals,
    nextInterval, killed, registered, passes

splitVars  == <<zone, start, end, splitPc, ranges>>
parseVars  == <<fileName, flagAssign, parsePc, parsed>>
clientVars == <<variant, now, parameters, tokenLease, loggingIn, logins, failed,
                callOp, callPc, callSaw, callLogin, callBuilt>>
scanVars   == <<fsPresent, fsChanges, filenamePrefix, heap, nextRef, ftpScanData,
                published, scan, lastPass>>
readVars   == <<readPc, readRef, readIdx, readSeen, options, clock, videoclips>>
listVars   == <<listPc, hasParameters, responses, allSearchedElements, listClock,
                remoteClips, searches>>
httpVars   == <<request, httpPc, sent, logged, upstream, sendVideo>>
thumbVars  == <<cache, tpc, thumbnailMo, started, gen, alone, writers>>
urlVars    == <<urlRevision, videoclipPath, clientToken, urlPc, urlResult>>
timerVars  == <<mixinRevision, mixinPc, storage, ftpScanTimeout, fetchTokenInterval, intervals,
                nextInterval, killed, registered, passes>>
vars == <<splitVars, parseVars, clientVars, scanVars, readVars, listVars, httpVars, thumbVars,
          urlVars, timerVars>>

Min(S) == CHOOSE x \in S : \A y \in S : x <= y
Max(S) == CHOOSE x \in S : \A y \in S : x >= y

(***************************************************************************)
(* The host's local calendar, as the Date methods of utils.ts read it.     *)
(* Time is in milliseconds since the epoch; a civil day has DayMs of them. *)
(* A zone is its offset from UTC and at most one change of that offset     *)
(* (the start or the end of daylight saving time) within the horizon.      *)
(***************************************************************************)
DayMs == 6
DstShift == 2
MaxT == 14
MaxWindows == 6

Instants == 0..MaxT

Zones ==
    { [base |-> b, at |-> a, delta |-> d] :
        b \in {0, 1}, a \in 2..(MaxT - 2), d \in {0, DstShift, 0 - DstShift} }

Offset(z, t) == z.base + (IF t >= z.at THEN z.delta ELSE 0)

\* LocalTime(t) of ECMAScript: the civil time of instant t.
LocalTime(z, t) == t + Offset(z, t)

\* UTC(tl) of ECMAScript: the instant of civil time tl.  A civil time that
\* occurs twice (the offset went down) or never (it went up) is read with
\* the offset in force before the change.
UTC(z, tl) ==
    LET candidates == { u \in (tl - z.base - DstShift)..(tl - z.base + DstShift) :
                          LocalTime(z, u) = tl }
    IN  IF candidates # {} THEN Min(candidates) ELSE tl - z.base

\* Date.prototype.getDate and friends: the civil day an instant falls on.
CivilDay(z, t) == LocalTime(z, t) \div DayMs

\* endOfDay = new Date(currentStart); endOfDay.setHours(23, 59, 59, 999)
EndOfDay(z, t) == UTC(z, CivilDay(z, t) * DayMs + (DayMs - 1))

(***************************************************************************)
(* splitDateRangeByDay (utils.ts).  The while loop, one window per pass.   *)
(* The loop has no bound of its own: the model follows it for MaxWindows   *)
(* passes and reports whether it returned within them.                     *)
(***************************************************************************)
RECURSIVE SplitLoop(_, _, _, _)
SplitLoop(z, currentStart, endTime, acc) ==
    IF ~(currentStart <= endTime)
    THEN [ranges |-> acc, returned |-> TRUE]
    ELSE IF Len(acc) >= MaxWindows
    THEN [ranges |-> acc, returned |-> FALSE]
    ELSE LET endOfDay   == EndOfDay(z, currentStart)
             currentEnd == IF endTime < endOfDay THEN endTime ELSE endOfDay
             pushed     == Append(acc, [start |-> currentStart, end |-> currentEnd])
         IN  IF currentEnd >= endTime
             THEN [ranges |-> pushed, returned |-> TRUE]
             ELSE SplitLoop(z, currentEnd + 1, endTime, pushed)

splitDateRangeByDay(z, s, e) == SplitLoop(z, s, e, <<>>)

SplitIdle ==
    /\ zone = [base |-> 0, at |-> 2, delta |-> 0]
    /\ start = 0
    /\ end = 0
    /\ splitPc = "off"
    /\ ranges = <<>>

SplitInit ==
    /\ zone \in Zones
    /\ start \in Instants
    /\ end \in Instants
    /\ splitPc = "call"
    /\ ranges = <<>>

SplitCall ==
    /\ splitPc = "call"
    /\ LET r == splitDateRangeByDay(zone, start, end)
       IN  /\ ranges' = r.ranges
           /\ splitPc' = IF r.returned THEN "done" ELSE "looping"
    /\ UNCHANGED <<zone, start, end>>

SplitNext == SplitCall


(***************************************************************************)
(* The flag tables of utils.ts, in the order Object.entries lists them.    *)
(***************************************************************************)
F(name, bitPosition, bitSize) == [flag |-> name, pos |-> bitPosition, size |-> bitSize]

FLAGS_CAM_V2 == <<
    F("resolution_index", 0, 7), F("tv_system", 7, 1), F("framerate", 8, 7),
    F("audio_index", 15, 2), F("ai_pd", 17, 1), F("ai_fd", 18, 1),
    F("ai_vd", 19, 1), F("ai_ad", 20, 1), F("encoder_type_index", 21, 2),
    F("is_schedule_record", 23, 1), F("is_motion_record", 24, 1),
    F("is_rf_record", 25, 1), F("is_doorbell_record", 26, 1),
    F("ai_other", 27, 1) >>

FLAGS_HUB_V0 == <<
    F("resolution_index", 0, 7), F("tv_system", 7, 1), F("framerate", 8, 7),
    F("audio_index", 15, 2), F("ai_pd", 17, 1), F("ai_fd", 18, 1),
    F("ai_vd", 19, 1), F("ai_ad", 20, 1), F("encoder_type_index", 21, 2),
    F("is_schedule_record", 23, 1), F("is_motion_record", 24, 1),
    F("is_rf_record", 25, 1), F("is_doorbell_record", 26, 1),
    F("is_ai_other_record", 27, 1), F("picture_layout_index", 28, 7),
    F("package_delivered", 35, 1), F("package_takenaway", 36, 1) >>

FLAGS_HUB_V1 == FLAGS_HUB_V0 \o << F("package_event", 37, 1) >>

FLAGS_HUB_V2 == <<
    F("resolution_index", 0, 7), F("tv_system", 7, 1), F("framerate", 8, 7),
    F("audio_index", 15, 2), F("ai_pd", 17, 1), F("ai_fd", 18, 1),
    F("ai_vd", 19, 1), F("ai_ad", 20, 1), F("ai_other", 21, 2),
    F("encoder_type_index", 23, 1), F("is_schedule_record", 24, 1),
    F("is_motion_record", 25, 1), F("is_rf_record", 26, 1),
    F("is_doorbell_record", 27, 1), F("picture_layout_index", 28, 7),
    F("package_delivered", 35, 1), F("package_takenaway", 36, 1),
    F("package_event", 37, 1), F("upload_flag", 38, 1) >>

\* FLAGS_MAPPING[devType][version]; <<>> stands for undefined.
HasFlagsMapping(devType, version) ==
    \/ devType = "cam" /\ version \in {2, 3, 4, 9}
    \/ devType = "hub" /\ version \in {0, 1, 2}

FLAGS_MAPPING(devType, version) ==
    IF devType = "cam" /\ version \in {2, 3, 4, 9} THEN FLAGS_CAM_V2
    ELSE IF devType = "hub" /\ version = 0 THEN FLAGS_HUB_V0
    ELSE IF devType = "hub" /\ version = 1 THEN FLAGS_HUB_V1
    ELSE IF devType = "hub" /\ version = 2 THEN FLAGS_HUB_V2
    ELSE <<>>

(***************************************************************************)
(* ECMAScript numbers and strings, as far as parseVideoclipName uses them. *)
(* A string is a sequence of one-character strings.  A number that only    *)
(* meets the bitwise operators is kept as the 32 bits ToInt32 leaves of    *)
(* it, least significant first.                                            *)
(***************************************************************************)
NaN == 0 - 1

Reverse(s) == [i \in 1..Len(s) |-> s[Len(s) + 1 - i]]

HexDigits == <<"0", "1", "2", "3", "4", "5", "6", "7",
               "8", "9", "a", "b", "c", "d", "e", "f">>

IsHexDigit(c) == \E i \in 1..16 : HexDigits[i] = c

HexDigitValue(c) == (CHOOSE i \in 1..16 : HexDigits[i] = c) - 1

\* The four binary digits of one hexadecimal digit, most significant first.
Nibble(c) ==
    LET v == HexDigitValue(c)
    IN  << IF (v \div 8) % 2 = 1 THEN "1" ELSE "0",
           IF (v \div 4) % 2 = 1 THEN "1" ELSE "0",
           IF (v \div 2) % 2 = 1 THEN "1" ELSE "0",
           IF v % 2 = 1 THEN "1" ELSE "0" >>

\* The prefix of s that parseInt reads in the given radix.
RECURSIVE DigitPrefix(_, _)
DigitPrefix(s, radix) ==
    IF s = <<>> THEN <<>>
    ELSE IF (radix = 16 /\ IsHexDigit(s[1])) \/ (radix = 2 /\ s[1] \in {"0", "1"})
    THEN <<s[1]>> \o DigitPrefix(Tail(s), radix)
    ELSE <<>>

RECURSIVE BinaryOf(_)
BinaryOf(hex) == IF hex = <<>> THEN <<>> ELSE Nibble(hex[1]) \o BinaryOf(Tail(hex))

RECURSIVE StripLeadingZeros(_)
StripLeadingZeros(b) ==
    IF Len(b) > 1 /\ b[1] = "0" THEN StripLeadingZeros(Tail(b)) ELSE b

PadStart(s, n, c) == [i \in 1..(n - Len(s)) |-> c] \o s

\* parseInt(hexValue, 16).toString(2): <<"N", "a", "N">> when no digit is read.
HexToBinaryString(hexValue) ==
    LET digits == DigitPrefix(hexValue, 16)
    IN  IF digits = <<>> THEN <<"N", "a", "N">> ELSE StripLeadingZeros(BinaryOf(digits))

\* ToInt32(parseInt(s, 2)): bit k of the result, k in 0..31, at index k + 1.
ToInt32OfBinary(s) ==
    LET digits == DigitPrefix(s, 2)
        n      == Len(digits)
    IN  [k \in 1..32 |-> IF k <= n /\ digits[n + 1 - k] = "1" THEN 1 ELSE 0]

\* ((1 << bitSize) - 1) << bitPosition: the shift count is taken modulo 32 and
\* the bits shifted past bit 31 are lost.
Mask(bitPosition, bitSize) ==
    LET sh == bitPosition % 32
    IN  [k \in 1..32 |-> IF (k - 1) >= sh /\ (k - 1) < sh + bitSize THEN 1 ELSE 0]

And32(a, b) == [k \in 1..32 |-> a[k] * b[k]]

\* a >> n: the sign-propagating shift, its count taken modulo 32.
Sar32(a, n) ==
    LET sh == n % 32
    IN  [k \in 1..32 |-> IF k + sh <= 32 THEN a[k + sh] ELSE a[32]]

\* The digits of a bit vector read as an unsigned number, most significant
\* first, without leading zeros.
BitsToBinaryString(a) ==
    StripLeadingZeros([i \in 1..Len(a) |-> IF a[Len(a) + 1 - i] = 1 THEN "1" ELSE "0"])

\* Two's complement negation of a 32-bit vector.
Negate32(a) ==
    LET lowest == Min({k \in 1..32 : a[k] = 1})
    IN  [k \in 1..32 |-> IF k <= lowest THEN a[k] ELSE 1 - a[k]]

\* v.toString(2) of an int32 v.
Int32ToBinaryString(a) ==
    IF a[32] = 1 THEN <<"-">> \o BitsToBinaryString(Negate32(a))
    ELSE BitsToBinaryString(a)

\* parseInt(s, 2) of a string whose leading digits are few: NaN with none.
RECURSIVE BinaryValue(_)
BinaryValue(digits) ==
    IF digits = <<>> THEN 0
    ELSE (IF digits[Len(digits)] = "1" THEN 1 ELSE 0)
         + 2 * BinaryValue(SubSeq(digits, 1, Len(digits) - 1))

ParseInt2(s) ==
    LET digits == DigitPrefix(s, 2)
    IN  IF digits = <<>> THEN NaN ELSE BinaryValue(digits)

(***************************************************************************)
(* parseVideoclipName (utils.ts).  A file name is given by its parts, the  *)
(* pieces between underscores of the last path segment cut at its first    *)
(* dot; a part is a string.  Undefined is what the function returns after  *)
(* its catch block has logged an exception.  The record returned carries   *)
(* the local flagValues as well, for the properties that speak of them.    *)
(***************************************************************************)
Undefined == [undefined |-> TRUE]

NoDevType == "none"

\* parseInt(s, 16) of the one- and two-digit strings the version and size use.
RECURSIVE HexValue(_)
HexValue(digits) ==
    IF digits = <<>> THEN 0
    ELSE HexDigitValue(digits[Len(digits)]) + 16 * HexValue(SubSeq(digits, 1, Len(digits) - 1))

ParseInt16(s) ==
    LET digits == DigitPrefix(s, 16)
    IN  IF digits = <<>> THEN NaN ELSE HexValue(digits)

\* s.substring(from, to), both counted from 0.
Substring(s, from, to) ==
    SubSeq(s, (IF from < Len(s) THEN from ELSE Len(s)) + 1, IF to < Len(s) THEN to ELSE Len(s))

\* Number(`0x${sizeHex}`): every character has to be a hexadecimal digit.
SizeOf(sizeHex) ==
    IF sizeHex # <<>> /\ \A i \in 1..Len(sizeHex) : IsHexDigit(sizeHex[i])
    THEN HexValue(sizeHex)
    ELSE NaN

\* hexIntReversed, as the bitwise operators see it.
HexIntReversed(hexValue) ==
    ToInt32OfBinary(Reverse(PadStart(HexToBinaryString(hexValue), Len(hexValue) * 4, "0")))

\* One pass of the loop over the flags of a table.
FlagValue(hexIntReversed, bitPosition, bitSize) ==
    LET mask              == Mask(bitPosition, bitSize)
        flagValueReversed == Sar32(And32(hexIntReversed, mask), bitPosition)
    IN  ParseInt2(Reverse(PadStart(Int32ToBinaryString(flagValueReversed), bitSize, "0")))

FlagNames(flagsMapping) == { flagsMapping[i].flag : i \in 1..Len(flagsMapping) }

FlagEntry(flagsMapping, name) ==
    flagsMapping[CHOOSE i \in 1..Len(flagsMapping) : flagsMapping[i].flag = name]

FlagValues(flagsMapping, hexValue) ==
    [ name \in FlagNames(flagsMapping) |->
        FlagValue(HexIntReversed(hexValue),
                  FlagEntry(flagsMapping, name).pos,
                  FlagEntry(flagsMapping, name).size) ]

\* flagValues[name] === 1
FlagIs1(flagValues, name) == name \in DOMAIN flagValues /\ flagValues[name] = 1

DetectionClasses(flagValues) ==
       (IF FlagIs1(flagValues, "ai_pd") THEN <<"person">> ELSE <<>>)
    \o (IF FlagIs1(flagValues, "ai_vd") THEN <<"vehicle">> ELSE <<>>)
    \o (IF FlagIs1(flagValues, "ai_fd") THEN <<"face">> ELSE <<>>)
    \o (IF FlagIs1(flagValues, "ai_ad") THEN <<"animal">> ELSE <<>>)
    \o (IF FlagIs1(flagValues, "is_motion_record") \/ FlagIs1(flagValues, "ai_other")
        THEN <<"motion">> ELSE <<>>)

DevType(parts) ==
    IF Len(parts) = 6 THEN "cam" ELSE IF Len(parts) = 9 THEN "hub" ELSE NoDevType

Version(parts) == ParseInt16(Substring(parts[1], 4, 6))

HexValueOf(parts) == IF Len(parts) = 6 THEN parts[5] ELSE parts[8]

SizeHexOf(parts) == IF Len(parts) = 6 THEN parts[6] ELSE parts[9]

\* hexValue.length throws when hexValue is undefined (a part count other
\* than 6 or 9); Object.entries throws when there is no table.
ParseThrows(parts) ==
    \/ DevType(parts) = NoDevType
    \/ ~HasFlagsMapping(DevType(parts), Version(parts))

parseVideoclipName(parts) ==
    IF ParseThrows(parts) THEN Undefined
    ELSE LET flagValues ==
                 FlagValues(FLAGS_MAPPING(DevType(parts), Version(parts)), HexValueOf(parts))
         IN  [ size             |-> SizeOf(SizeHexOf(parts)),
               flagValues       |-> flagValues,
               detectionClasses |-> DetectionClasses(flagValues) ]


(***************************************************************************)
(* The file names the decoder is run on.  A well-formed name carries the   *)
(* flags word that packs an assignment of values to the flags of its       *)
(* table: the field of a flag starts bitPosition bits from the left of the *)
(* word and holds the value most significant bit first.                    *)
(***************************************************************************)
Families == { <<"cam", 2>>, <<"cam", 3>>, <<"cam", 4>>, <<"cam", 9>>,
              <<"hub", 0>>, <<"hub", 1>>, <<"hub", 2>> }

\* Hexadecimal digits of the flags word: the fewest that hold the table.
WordDigits(flagsMapping) ==
    (Max({ flagsMapping[i].pos + flagsMapping[i].size : i \in 1..Len(flagsMapping) }) + 3) \div 4

WordBit(flagsMapping, assign, k) ==
    LET hits == { i \in 1..Len(flagsMapping) :
                    flagsMapping[i].pos <= k /\ k < flagsMapping[i].pos + flagsMapping[i].size }
    IN  IF hits = {} THEN 0
        ELSE LET e == flagsMapping[CHOOSE i \in hits : TRUE]
             IN  (assign[e.flag] \div (2 ^ (e.size - 1 - (k - e.pos)))) % 2

EncodeFlags(flagsMapping, assign) ==
    [ d \in 1..WordDigits(flagsMapping) |->
        HexDigits[ 8 * WordBit(flagsMapping, assign, 4 * (d - 1))
                 + 4 * WordBit(flagsMapping, assign, 4 * (d - 1) + 1)
                 + 2 * WordBit(flagsMapping, assign, 4 * (d - 1) + 2)
                 + WordBit(flagsMapping, assign, 4 * (d - 1) + 3) + 1 ] ]

\* Assignments: one flag at any value in its range, the others all at zero
\* or all at their largest value.
Assignments(flagsMapping) ==
    { [ name \in FlagNames(flagsMapping) |->
          IF name = flagsMapping[i].flag THEN v
          ELSE IF high THEN (2 ^ FlagEntry(flagsMapping, name).size) - 1 ELSE 0 ] :
        i \in 1..Len(flagsMapping), v \in 0..127, high \in BOOLEAN }

InRange(flagsMapping, assign) ==
    \A i \in 1..Len(flagsMapping) :
        assign[flagsMapping[i].flag] < 2 ^ flagsMapping[i].size

Str(n) == HexDigits[n + 1]

NameOf(family, hexValue, sizeHex) ==
    LET head == <<"R", "e", "c", "M", "0", Str(family[2])>>
        date == <<"2", "0", "2", "3", "0", "6", "1", "5">>
        time == <<"1", "4", "3", "0", "0", "0">>
    IN  IF family[1] = "cam"
        THEN <<head, date, time, time, hexValue, sizeHex>>
        ELSE <<head, <<"D", "S", "T">>, date, time, time, <<"0">>, <<"0">>, hexValue, sizeHex>>

ParseIdle ==
    /\ fileName = <<>>
    /\ flagAssign = <<>>
    /\ parsePc = "off"
    /\ parsed = Undefined

ParseInitEncoded ==
    \E family \in Families :
        LET flagsMapping == FLAGS_MAPPING(family[1], family[2])
        IN  /\ flagAssign \in { a \in Assignments(flagsMapping) : InRange(flagsMapping, a) }
            /\ fileName = NameOf(family, EncodeFlags(flagsMapping, flagAssign), <<"1", "a">>)

\* File names the decoder has to refuse.  GoodCamName and GoodHubName are
\* well-formed; each malformed name differs from one of them in one respect.
PersonWord == <<"0", "0", "0", "0", "4", "0", "0">>

GoodCamName == NameOf(<<"cam", 2>>, PersonWord, <<"1", "a">>)

GoodHubName == NameOf(<<"hub", 0>>, <<"0", "0", "0", "0", "4", "0", "0", "0", "0", "0">>, <<"1", "a">>)

WrongCountNames ==
    { SubSeq(GoodHubName, 1, k) : k \in (1..8) \ {6} }
        \cup { GoodHubName \o << <<"0">> >>, GoodCamName \o << <<"0">> >> }

NonHexSegments == { <<"z", "z", "z", "z", "z", "z", "z">>,
                    <<"g", "0", "0", "0", "4", "0", "0">>,
                    <<"0", "0", "0", "0", "4", "0", "g">> }

NonHexFlagsNames ==
    { NameOf(family, seg, <<"1", "a">>) : family \in {<<"cam", 2>>, <<"hub", 0>>}, seg \in NonHexSegments }

NonHexSizeNames ==
    { NameOf(<<"cam", 2>>, PersonWord, sizeHex) : sizeHex \in { <<"z", "z">>, <<"1", "g">> } }

UnknownVersionNames ==
    { NameOf(family, PersonWord, <<"1", "a">>) :
        family \in { f \in {"cam", "hub"} \X (0..15) : ~HasFlagsMapping(f[1], f[2]) } }

MalformedNames ==
    WrongCountNames \cup NonHexFlagsNames \cup NonHexSizeNames \cup UnknownVersionNames

ParseInitMalformed ==
    /\ flagAssign = <<>>
    /\ fileName \in MalformedNames

ParseInit ==
    /\ (ParseInitEncoded \/ ParseInitMalformed)
    /\ parsePc = "call"
    /\ parsed = Undefined

ParseCall ==
    /\ parsePc = "call"
    /\ parsed' = parseVideoclipName(fileName)
    /\ parsePc' = "done"
    /\ UNCHANGED <<fileName, flagAssign>>

ParseNext == ParseCall


(***************************************************************************)
(* ReolinkCameraClient (client.ts).  The file keeps two revisions of the   *)
(* class: "guarded", with the loggingIn flag and the login data handed to  *)
(* the constructor, and "unguarded", without them.  variant says which one *)
(* the client is an instance of.                                           *)
(*                                                                         *)
(* A caller is an invocation of an async method.  The code up to its first *)
(* await runs when it is called; the code after an await runs as a         *)
(* microtask ("resume") once the awaited promise has settled.  Microtasks  *)
(* run before the next timer or I/O callback, so neither the clock nor a   *)
(* network reply moves while one is pending.                               *)
(***************************************************************************)
NumCallers == 2
MaxNow == 3
LeaseMs == 2

Callers == 1..NumCallers

Ops == {"login", "requestWithLogin", "getVideoClipUrl"}

\* tokenLease before any login: undefined, and undefined > Date.now() is false.
NoLease == 0 - 1

\* parameters before any login: undefined.
NoParameters == 0

LeaseValid == tokenLease > now

InFlight == { q \in Callers : callPc[q] = "fetching" }

\* What a caller found when it called (callSaw) and when the code after
\* its await ran (callBuilt), kept for the properties.
NoSaw == [inFlight |-> FALSE, expired |-> FALSE]

NoBuilt == [leaseOk |-> FALSE, early |-> FALSE]

Saw == [inFlight |-> InFlight # {}, expired |-> ~LeaseValid]

Built == [leaseOk |-> LeaseValid, early |-> InFlight # {}]

MicrotaskPending == \E q \in Callers : callPc[q] = "resume"

ClientIdle ==
    /\ variant = "guarded"
    /\ now = 0
    /\ parameters = NoParameters
    /\ tokenLease = NoLease
    /\ loggingIn = FALSE
    /\ logins = 0
    /\ failed = FALSE
    /\ callOp = [q \in Callers |-> "login"]
    /\ callPc = [q \in Callers |-> "off"]
    /\ callSaw = [q \in Callers |-> NoSaw]
    /\ callLogin = [q \in Callers |-> FALSE]
    /\ callBuilt = [q \in Callers |-> NoBuilt]

\* The client after its constructor.  The guarded revision takes the stored
\* login data, if any, and otherwise starts a login of its own.
ClientInit ==
    /\ now = 0
    /\ logins = 0
    /\ failed = FALSE
    /\ callOp = [q \in Callers |-> "login"]
    /\ callSaw = [q \in Callers |-> NoSaw]
    /\ callBuilt = [q \in Callers |-> NoBuilt]
    /\ \/ /\ variant = "unguarded"
          /\ parameters = NoParameters
          /\ tokenLease = NoLease
          /\ loggingIn = FALSE
          /\ callPc = [q \in Callers |-> "idle"]
          /\ callLogin = [q \in Callers |-> FALSE]
       \/ /\ variant = "guarded"
          /\ parameters = 1
          /\ tokenLease \in {0, LeaseMs}
          /\ loggingIn = FALSE
          /\ callPc = [q \in Callers |-> "idle"]
          /\ callLogin = [q \in Callers |-> FALSE]
       \/ /\ variant = "guarded"
          /\ parameters = NoParameters
          /\ tokenLease = NoLease
          /\ loggingIn = TRUE
          /\ callPc = [q \in Callers |-> IF q = 1 THEN "fetching" ELSE "idle"]
          /\ callLogin = [q \in Callers |-> q = 1]

\* login() up to its first await: TRUE when it goes on to getLoginParameters.
LoginFetches ==
    IF variant = "guarded"
    THEN ~loggingIn /\ ~LeaseValid
    ELSE ~LeaseValid

\* loggingIn after login() has run up to its first await.
LoginSetsGuard == IF variant = "guarded" THEN TRUE ELSE loggingIn

\* A caller invokes login(), requestWithLogin() or the guarded
\* getVideoClipUrl(): each starts with login().
Call(p, op) ==
    /\ callPc[p] = "idle"
    /\ op = "getVideoClipUrl" => variant = "guarded"
    /\ callOp' = [callOp EXCEPT ![p] = op]
    /\ callSaw' = [callSaw EXCEPT ![p] = Saw]
    /\ callLogin' = [callLogin EXCEPT ![p] = LoginFetches]
    /\ callPc' = [callPc EXCEPT ![p] = IF LoginFetches THEN "fetching" ELSE "resume"]
    /\ loggingIn' = LoginSetsGuard
    /\ callBuilt' = [callBuilt EXCEPT ![p] = NoBuilt]
    /\ UNCHANGED <<variant, now, parameters, tokenLease, logins, failed>>

\* The unguarded getVideoClipUrl(): it reads this.parameters.token at once.
CallUrlUnguarded(p) ==
    /\ callPc[p] = "idle"
    /\ variant = "unguarded"
    /\ callOp' = [callOp EXCEPT ![p] = "getVideoClipUrl"]
    /\ callSaw' = [callSaw EXCEPT ![p] = Saw]
    /\ callLogin' = [callLogin EXCEPT ![p] = FALSE]
    /\ callPc' = [callPc EXCEPT ![p] = IF parameters = NoParameters THEN "threw" ELSE "sent"]
    /\ callBuilt' = [callBuilt EXCEPT ![p] = Built]
    /\ UNCHANGED <<variant, now, parameters, tokenLease, loggingIn, logins, failed>>

\* getLoginParameters answers: login() stores the token and its lease.
LoginSuccess(p) ==
    /\ callPc[p] = "fetching"
    /\ ~MicrotaskPending
    /\ parameters' = logins + 1
    /\ logins' = logins + 1
    /\ tokenLease' = now + LeaseMs
    /\ loggingIn' = FALSE
    /\ callPc' = [callPc EXCEPT ![p] = "resume"]
    /\ UNCHANGED <<variant, now, failed, callOp, callSaw, callLogin, callBuilt>>

\* getLoginParameters throws: login() rejects, and so does its caller.
LoginFail(p) ==
    /\ callPc[p] = "fetching"
    /\ ~MicrotaskPending
    /\ callPc' = [callPc EXCEPT ![p] = "threw"]
    /\ failed' = TRUE
    /\ UNCHANGED <<variant, now, parameters, tokenLease, loggingIn, logins,
                   callOp, callSaw, callLogin, callBuilt>>

\* The code after "await this.login()".  requestWithLogin copies
\* this.parameters into the URL and sends it; getVideoClipUrl reads
\* this.parameters.token; either throws a TypeError without parameters.
Resume(p) ==
    /\ callPc[p] = "resume"
    /\ callPc' = [callPc EXCEPT ![p] =
            IF callOp[p] = "login" THEN "done"
            ELSE IF parameters = NoParameters THEN "threw"
            ELSE "sent"]
    /\ callBuilt' = [callBuilt EXCEPT ![p] = Built]
    /\ UNCHANGED <<variant, now, parameters, tokenLease, loggingIn, logins,
                   failed, callOp, callSaw, callLogin>>

\* The caller has its result; it may call again.
Return(p) ==
    /\ callPc[p] \in {"done", "sent", "threw"}
    /\ callPc' = [callPc EXCEPT ![p] = "idle"]
    /\ callOp' = [callOp EXCEPT ![p] = "login"]
    /\ callSaw' = [callSaw EXCEPT ![p] = NoSaw]
    /\ callLogin' = [callLogin EXCEPT ![p] = FALSE]
    /\ callBuilt' = [callBuilt EXCEPT ![p] = NoBuilt]
    /\ UNCHANGED <<variant, now, parameters, tokenLease, loggingIn, logins, failed>>

Tick ==
    /\ now < MaxNow
    /\ ~MicrotaskPending
    /\ now' = now + 1
    /\ UNCHANGED <<variant, parameters, tokenLease, loggingIn, logins, failed,
                   callOp, callPc, callSaw, callLogin, callBuilt>>

\* The callback of the device's 20 s timer, and the call the constructor
\* makes: fetchToken() is getClient() and then client.login().
FetchToken(p) == Call(p, "login")

ClientNext ==
    \/ \E p \in Callers, op \in Ops : Call(p, op)
    \/ \E p \in Callers : CallUrlUnguarded(p)
    \/ \E p \in Callers : LoginSuccess(p)
    \/ \E p \in Callers : LoginFail(p)
    \/ \E p \in Callers : Resume(p)
    \/ \E p \in Callers : Return(p)
    \/ Tick

\* The guarded revision alone.
GuardedInit == ClientInit /\ variant = "guarded"

GuardedNext ==
    \/ \E p \in Callers, op \in Ops : Call(p, op)
    \/ \E p \in Callers : LoginSuccess(p)
    \/ \E p \in Callers : LoginFail(p)
    \/ \E p \in Callers : Resume(p)
    \/ \E p \in Callers : Return(p)
    \/ Tick

(***************************************************************************)
(* The FTP folder scan (cameraMixin.ts, startFtpScan) and the listing that *)
(* reads its snapshot (getVideoClips, ftp branch).                         *)
(*                                                                         *)
(* The scanned tree is the FTP folder with one sub-directory.  A file name *)
(* is kept by the features the code tests: whether it starts with the      *)
(* configured prefix, whether it ends with "mp4", whether it is a          *)
(* directory, and the time fields videoclippathRegex finds in it (NoTime   *)
(* when the name holds no run of fourteen digits).  readdir lists a        *)
(* directory in the order of FileTable.                                    *)
(***************************************************************************)
NoTime == [mon |-> 0 - 1, day |-> 0, sec |-> 0]

N(dir, prefixed, mp4, isDir, time) ==
    [dir |-> dir, prefixed |-> prefixed, mp4 |-> mp4, isDir |-> isDir, time |-> time]

FileTable ==
    << N("root", TRUE,  TRUE,  FALSE, [mon |-> 0, day |-> 3, sec |-> 0]),
       N("root", TRUE,  TRUE,  FALSE, NoTime),
       N("root", TRUE,  TRUE,  TRUE,  NoTime),
       N("sub",  TRUE,  TRUE,  FALSE, [mon |-> 1, day |-> 1, sec |-> 1]),
       N("root", FALSE, TRUE,  FALSE, [mon |-> 1, day |-> 2, sec |-> 0]),
       N("root", TRUE,  FALSE, FALSE, [mon |-> 0, day |-> 1, sec |-> 1]) >>

Files == DOMAIN FileTable
SubDir == 3

\* files.filter(file => (filenamePrefix ? file.startsWith(filenamePrefix) : true)
\*                      && file.endsWith('mp4'))
Filter(f, prefix) ==
    /\ (IF prefix THEN FileTable[f].prefixed ELSE TRUE)
    /\ FileTable[f].mp4

RECURSIVE Ascending(_)
Ascending(S) ==
    IF S = {} THEN <<>>
    ELSE LET m == Min(S) IN <<m>> \o Ascending(S \ {m})

\* await fs.promises.readdir(dir), filtered
filteredFiles(dir, present, prefix) ==
    Ascending({f \in present : FileTable[f].dir = dir /\ Filter(f, prefix)})

FileData(f) ==
    [fullPath |-> f,
     time |-> FileTable[f].time,
     type |-> IF FileTable[f].mp4 THEN "video" ELSE "image"]

PushFileAlways(f) == <<FileData(f)>>

\* The entries one plain file adds to result: one when the regex matches,
\* none otherwise.
PushFile(f) ==
    IF FileTable[f].time # NoTime THEN <<FileData(f)>> ELSE <<>>

\* The for loop of searchFile from the file at the head of todo up to its
\* next await (a directory to recurse into), its return, or a throw of
\* statSync on a file that is no longer there.
RECURSIVE Loop(_, _, _)
Loop(todo, result, present) ==
    IF todo = <<>> THEN [status |-> "return", result |-> result, todo |-> <<>>]
    ELSE LET f == Head(todo) IN
         IF f \notin present
         THEN [status |-> "throw", result |-> result, todo |-> <<>>]
         ELSE IF FileTable[f].isDir
         THEN [status |-> "recurse", result |-> result, todo |-> Tail(todo)]
         ELSE Loop(Tail(todo), result \o PushFile(f), present)

\* searchFile(fullPath, result) on the sub-directory, which holds plain
\* files only: a copy of currentResult followed by the files found.
searchSub(currentResult, present, prefix) ==
    Loop(filteredFiles("sub", present, prefix), currentResult, present).result

(***************************************************************************)
(* processDate (cameraMixin.ts): a Date of the current instant whose       *)
(* fields are then set one by one.  The calendar is scaled to a year of    *)
(* two months with MonthDays days; hours, minutes and seconds are one      *)
(* field.  A day past the end of a month rolls over into the next month,   *)
(* as the setters of Date do.                                              *)
(***************************************************************************)
MonthDays == <<3, 2>>
SecsPerDay == 2
MsPerSec == 2

DaysIn(mon) == MonthDays[mon + 1]
DaysInYear == DaysIn(0) + DaysIn(1)

MakeDay(d, mon, day) ==
    IF day <= DaysIn(mon)
    THEN [d EXCEPT !.mon = mon, !.day = day]
    ELSE IF mon + 1 < Len(MonthDays)
    THEN [d EXCEPT !.mon = mon + 1, !.day = day - DaysIn(mon)]
    ELSE [d EXCEPT !.year = d.year + 1, !.mon = 0, !.day = day - DaysIn(mon)]

setMonth(d, mon) == MakeDay(d, mon, d.day)
setDate(d, day) == MakeDay(d, d.mon, day)
setSeconds(d, sec) == [d EXCEPT !.sec = sec]

getTime(d) ==
    LET dayNumber == d.year * DaysInYear
                     + (IF d.mon = 0 THEN 0 ELSE DaysIn(0)) + (d.day - 1)
    IN  (dayNumber * SecsPerDay + d.sec) * MsPerSec + d.ms

processDate(time, today) ==
    getTime(setSeconds(setDate(setMonth(today, time.mon), time.day), time.sec))

\* The instants at which a listing may run: new Date().
Todays ==
    {[year |-> 0, mon |-> 0, day |-> 1, sec |-> 0, ms |-> 0],
     [year |-> 0, mon |-> 0, day |-> DaysIn(0), sec |-> 0, ms |-> MsPerSec - 1],
     [year |-> 0, mon |-> 1, day |-> DaysIn(1), sec |-> 0, ms |-> 0]}

MaxTime == 2 * DaysInYear * SecsPerDay * MsPerSec
\* The ranges a listing asks for: everything, and the second month of the
\* year of the files.
ListOptions ==
    {[startTime |-> 0, endTime |-> MaxTime],
     [startTime |-> DaysIn(0) * SecsPerDay * MsPerSec,
      endTime |-> DaysInYear * SecsPerDay * MsPerSec - 1]}

(***************************************************************************)
(* Arrays live in a heap: ftpScanData, the root call's result and the      *)
(* array a listing iterates are references.  Array 0 is the initial [] of  *)
(* ftpScanData.                                                            *)
(***************************************************************************)
NumScans == 1
MaxRefs == 2
MaxFsChanges == 1
Scans == 1..NumScans

\* The passes that may run at once: a pass takes over 10 s when readdir or
\* statSync is slow, and the interval fires again meanwhile.
OverlapScans == 1..(NumScans + 1)
Slots == DOMAIN scan
Refs == 0..MaxRefs

IdleScan == [pc |-> "idle", ref |-> 0, todo |-> <<>>]
NoPass == [outcome |-> "none", listed |-> {}, prefix |-> FALSE, result |-> <<>>]
NoOptions == [startTime |-> 0, endTime |-> 0]

NoClock == [year |-> 0, mon |-> 0, day |-> 1, sec |-> 0, ms |-> 0]

ResultArrayInPlace(fresh, current) == current

\* const result = [...currentResult] of the root call: a new array.
ResultArray(fresh, current) == fresh

\* Arrays that nothing refers to any more are collected.
Collect(h, live) == [r \in Refs |-> IF r \in live THEN h[r] ELSE <<>>]

\* The folders a run starts from.
InitialFolders == {{}, {1, 2}, {1, 2, 3, 4}, Files}

ScanIdle ==
    /\ fsPresent = {}
    /\ fsChanges = 0
    /\ filenamePrefix = FALSE
    /\ heap = [r \in Refs |-> <<>>]
    /\ nextRef = 1
    /\ ftpScanData = 0
    /\ published = {<<>>}
    /\ scan = [s \in Scans |-> IdleScan]
    /\ lastPass = NoPass
    /\ readPc = "off"
    /\ readRef = 0
    /\ readIdx = 0
    /\ readSeen = <<>>
    /\ options = NoOptions
    /\ clock = NoClock
    /\ videoclips = <<>>

\* Two passes of one device, over a folder that holds the sub-directory.
OverlapInit ==
    /\ fsPresent \in {{1, 2, 3, 4}, Files}
    /\ fsChanges = 0
    /\ filenamePrefix = FALSE
    /\ heap = [r \in Refs |-> <<>>]
    /\ nextRef = 1
    /\ ftpScanData = 0
    /\ published = {<<>>}
    /\ scan = [s \in OverlapScans |-> IdleScan]
    /\ lastPass = NoPass
    /\ readPc = "idle"
    /\ readRef = 0
    /\ readIdx = 0
    /\ readSeen = <<>>
    /\ options = NoOptions
    /\ clock = NoClock
    /\ videoclips = <<>>

ScanInit ==
    /\ fsPresent \in InitialFolders
    /\ fsChanges = 0
    /\ filenamePrefix \in BOOLEAN
    /\ heap = [r \in Refs |-> <<>>]
    /\ nextRef = 1
    /\ ftpScanData = 0
    /\ published = {<<>>}
    /\ scan = [s \in Scans |-> IdleScan]
    /\ lastPass = NoPass
    /\ readPc = "idle"
    /\ readRef = 0
    /\ readIdx = 0
    /\ readSeen = <<>>
    /\ options = NoOptions
    /\ clock = NoClock
    /\ videoclips = <<>>

\* The interval callback starts a pass: searchFile(ftpFolder) copies its
\* empty currentResult into a new result array and awaits readdir.
ScanFire(s) ==
    /\ scan[s].pc = "idle"
    /\ readPc # "off"
    /\ nextRef <= MaxRefs
    /\ scan' = [scan EXCEPT ![s] =
                    [pc |-> "root", ref |-> ResultArray(nextRef, ftpScanData),
                     todo |-> <<>>]]
    /\ nextRef' = nextRef + 1
    /\ UNCHANGED <<fsPresent, fsChanges, filenamePrefix, heap, ftpScanData,
                   published, lastPass, readVars>>

\* searchFile returned to the interval callback: this.ftpScanData = result.
Live(published_, s) ==
    {published_} \cup {scan[t].ref : t \in {u \in Slots : scan[u].pc # "idle"} \ {s}}
                 \cup (IF readPc = "reading" THEN {readRef} ELSE {})

Publish(s, result, listed) ==
    /\ heap' = Collect([heap EXCEPT ![scan[s].ref] = result], Live(scan[s].ref, s))
    /\ ftpScanData' = scan[s].ref
    /\ published' = published \cup {result}
    /\ scan' = [scan EXCEPT ![s] = IdleScan]
    /\ lastPass' = [outcome |-> "published", listed |-> listed,
                    prefix |-> filenamePrefix, result |-> result]

FailPublishing(s, result, cause, listed) ==
    /\ heap' = Collect([heap EXCEPT ![scan[s].ref] = result], Live(scan[s].ref, s))
    /\ ftpScanData' = scan[s].ref
    /\ published' = published \cup {result}
    /\ scan' = [scan EXCEPT ![s] = IdleScan]
    /\ lastPass' = [outcome |-> cause, listed |-> listed,
                    prefix |-> filenamePrefix, result |-> <<>>]

\* searchFile threw: the catch of the interval callback logs.
Fail(s, result, cause, listed) ==
    /\ heap' = Collect([heap EXCEPT ![scan[s].ref] = result], Live(ftpScanData, s))
    /\ scan' = [scan EXCEPT ![s] = IdleScan]
    /\ lastPass' = [outcome |-> cause, listed |-> listed,
                    prefix |-> filenamePrefix, result |-> <<>>]
    /\ UNCHANGED <<ftpScanData, published>>

AllListed == {f \in fsPresent : FileTable[f].dir = "root" \/ SubDir \in fsPresent}

\* readdir of the FTP folder resolves; the loop runs up to the recursion
\* into the sub-directory or to the end.
ScanReaddirRoot(s) ==
    /\ scan[s].pc = "root"
    /\ LET r == Loop(filteredFiles("root", fsPresent, filenamePrefix),
                     heap[scan[s].ref], fsPresent)
       IN  IF r.status = "recurse"
           THEN /\ heap' = [heap EXCEPT ![scan[s].ref] = r.result]
                /\ scan' = [scan EXCEPT ![s].pc = "sub", ![s].todo = r.todo]
                /\ UNCHANGED <<ftpScanData, published, lastPass>>
           ELSE Publish(s, r.result, AllListed)
    /\ UNCHANGED <<fsPresent, fsChanges, filenamePrefix, nextRef, readVars>>

\* readdir of the sub-directory resolves (or rejects when the directory is
\* gone); result.push(...inner); the loop of the root call goes on with the
\* files it listed before, and statSync throws on one that has been removed.
ScanReaddirSub(s) ==
    /\ scan[s].pc = "sub"
    /\ LET current == heap[scan[s].ref]
           inner == searchSub(current, fsPresent, filenamePrefix)
           r == Loop(scan[s].todo, current \o inner, fsPresent)
       IN  IF SubDir \notin fsPresent
           THEN Fail(s, current, "readdir", AllListed)
           ELSE IF r.status = "throw"
           THEN Fail(s, r.result, "stat", AllListed)
           ELSE Publish(s, r.result, AllListed)
    /\ UNCHANGED <<fsPresent, fsChanges, filenamePrefix, nextRef, readVars>>

\* readdir rejects with an I/O error.
ScanReaddirFail(s) ==
    /\ scan[s].pc \in {"root", "sub"}
    /\ Fail(s, heap[scan[s].ref], "readdir", AllListed)
    /\ UNCHANGED <<fsPresent, fsChanges, filenamePrefix, nextRef, readVars>>

\* The camera uploads a file, or a file is removed.
FsChange(f) ==
    /\ readPc # "off"
    /\ fsChanges < MaxFsChanges
    /\ fsChanges' = fsChanges + 1
    /\ fsPresent' = (IF f \in fsPresent THEN fsPresent \ {f} ELSE fsPresent \cup {f})
    /\ UNCHANGED <<filenamePrefix, heap, nextRef, ftpScanData, published, scan,
                   lastPass, readVars>>

\* getVideoClips with ftp set: for (const item of this.ftpScanData).
ReadStart(opts, today) ==
    /\ readPc = "idle"
    /\ readPc' = "reading"
    /\ readRef' = ftpScanData
    /\ readIdx' = 0
    /\ options' = opts
    /\ clock' = today
    /\ UNCHANGED <<readSeen, videoclips, scanVars>>

\* One iteration: the item at the iterator's index of the array, its
\* timestamp, and the clip pushed after await getVideoclipWebhookUrls.
Clip(item, timestamp) ==
    [id |-> item.fullPath, startTime |-> timestamp, detectionClasses |-> <<"motion">>]

ReadStep ==
    /\ readPc = "reading"
    /\ readIdx < Len(heap[readRef])
    /\ LET item == heap[readRef][readIdx + 1]
           timestamp == processDate(item.time, clock)
       IN  /\ readSeen' = Append(readSeen, item)
           /\ videoclips' =
                 IF /\ item.type = "video"
                    /\ timestamp >= options.startTime
                    /\ timestamp <= options.endTime
                 THEN Append(videoclips, Clip(item, timestamp))
                 ELSE videoclips
    /\ readIdx' = readIdx + 1
    /\ UNCHANGED <<readPc, readRef, options, clock, scanVars>>

ReadReturn ==
    /\ readPc = "reading"
    /\ readIdx >= Len(heap[readRef])
    /\ readPc' = "done"
    /\ heap' = Collect(heap, (Live(ftpScanData, 0) \ {readRef}) \cup {ftpScanData})
    /\ UNCHANGED <<readRef, readIdx, readSeen, options, clock, videoclips,
                   fsPresent, fsChanges, filenamePrefix, nextRef, ftpScanData,
                   published, scan, lastPass>>

ScanNext ==
    \/ \E s \in Slots : ScanFire(s)
    \/ \E s \in Slots : ScanReaddirRoot(s)
    \/ \E s \in Slots : ScanReaddirSub(s)
    \/ \E s \in Slots : ScanReaddirFail(s)
    \/ \E f \in Files : FsChange(f)
    \/ \E opts \in ListOptions, today \in Todays : ReadStart(opts, today)
    \/ ReadStep
    \/ ReadReturn

(***************************************************************************)
(* getVideoClips without ftp (cameraMixin.ts): one Search per window of    *)
(* splitDateRangeByDay, then one clip per hit.  The device's answer to a   *)
(* Search is an input: a list of hits, a protocol error, or a request that *)
(* throws (the login or the HTTP exchange failed).                         *)
(***************************************************************************)
PersonFlags ==
    [name \in FlagNames(FLAGS_MAPPING("cam", 9)) |-> IF name = "ai_pd" THEN 1 ELSE 0]

GoodName ==
    NameOf(<<"cam", 9>>, EncodeFlags(FLAGS_MAPPING("cam", 9), PersonFlags), <<"1", "a">>)

\* A name of five fields, and a name of a version that has no table.
ShortName == SubSeq(GoodName, 1, Len(GoodName) - 1)
UnknownVersionName == NameOf(<<"cam", 7>>, <<"0">>, <<"1", "a">>)

Hit(name, day) ==
    [name |-> name,
     StartTime |-> [mon |-> 0, day |-> day, sec |-> 0],
     EndTime   |-> [mon |-> 0, day |-> day, sec |-> 1]]

HitLists ==
    { <<>>,
      <<Hit(GoodName, 1)>>,
      <<Hit(ShortName, 2)>>,
      <<Hit(GoodName, 2), Hit(UnknownVersionName, DaysIn(0))>> }

Replies ==
    {[kind |-> "throw", File |-> <<>>], [kind |-> "error", File |-> <<>>]}
    \cup {[kind |-> "ok", File |-> hits] : hits \in HitLists}

\* What client.getVideoClips returns for an answer: [] on a protocol
\* error and on an exception, the hits otherwise.
SearchResult(reply) == IF reply.kind = "ok" THEN reply.File ELSE <<>>

\* One pass of the loop over allSearchedElements: the clip of a hit, none
\* when the body throws (the destructuring of an undefined decoder result).
ClipOf(searchElement, today) ==
    LET startTime == processDate(searchElement.StartTime, today)
        entdTime  == processDate(searchElement.EndTime, today)
        decoded   == parseVideoclipName(searchElement.name)
    IN  IF decoded = Undefined THEN <<>>
        ELSE << [id |-> searchElement.name,
                 startTime |-> startTime,
                 duration |-> entdTime - startTime,
                 detectionClasses |-> decoded.detectionClasses] >>

RECURSIVE ClipsOf(_, _)
ClipsOf(elements, today) ==
    IF elements = <<>> THEN <<>>
    ELSE ClipOf(Head(elements), today) \o ClipsOf(Tail(elements), today)

\* The fields of a Date that the Search command carries: the day of
\* getDate() and the time of day.  The horizon lies within one month.
TimeFields(z, t) == [day |-> CivilDay(z, t), time |-> LocalTime(z, t) % DayMs]

\* The body client.getVideoClips builds for a window.  An endTime of 0 is
\* falsy; an endTime on a later day of the month than startTime, or none,
\* is replaced by 23:59:59 of the day of startTime.
SearchBody(z, dateRange) ==
    LET startTime == dateRange.start
        endTime   == IF \/ dateRange.end = 0
                        \/ CivilDay(z, dateRange.end) > CivilDay(z, startTime)
                     THEN EndOfDay(z, startTime)
                     ELSE dateRange.end
    IN  [cmd |-> "Search",
         StartTime |-> TimeFields(z, startTime),
         EndTime |-> TimeFields(z, endTime)]

ListZones == {z \in Zones : z.base = 0 /\ z.at = DayMs + 1}
ListTimes == {0, DayMs - 1, MaxT}

ListIdle ==
    /\ listPc = "off"
    /\ hasParameters = FALSE
    /\ responses = <<>>
    /\ allSearchedElements = <<>>
    /\ listClock = NoClock
    /\ remoteClips = <<>>
    /\ searches = <<>>

ListInit ==
    /\ zone \in ListZones
    /\ start \in ListTimes
    /\ end \in ListTimes
    /\ splitPc = "call"
    /\ ranges = <<>>
    /\ listPc = "idle"
    /\ hasParameters \in BOOLEAN
    /\ responses = <<>>
    /\ allSearchedElements = <<>>
    /\ listClock = NoClock
    /\ remoteClips = <<>>
    /\ searches = <<>>

\* const dateRanges = splitDateRangeByDay(options.startTime, options.endTime)
ListSplit ==
    /\ listPc = "idle"
    /\ SplitCall
    /\ listPc' = IF splitPc' = "done" THEN "search" ELSE "looping"
    /\ UNCHANGED <<hasParameters, responses, allSearchedElements, listClock, remoteClips,
                   searches>>

\* One pass of the loop over dateRanges.  A Search that reached the device
\* was sent by a client that holds its login parameters; one that threw may
\* have thrown after a login that succeeded.
ListSearch(reply, loggedIn) ==
    /\ listPc = "search"
    /\ Len(responses) < Len(ranges)
    /\ responses' = Append(responses, reply)
    /\ searches' = Append(searches, SearchBody(zone, ranges[Len(responses) + 1]))
    /\ hasParameters' = (hasParameters \/ reply.kind # "throw" \/ loggedIn)
    /\ allSearchedElements' = allSearchedElements \o SearchResult(reply)
    /\ UNCHANGED <<splitVars, listPc, listClock, remoteClips>>

\* The log line that reads api.parameters.token, the loop over the hits,
\* and the return; the catch of getVideoClips leaves the result undefined.
ListReturn(today) ==
    /\ listPc = "search"
    /\ Len(responses) = Len(ranges)
    /\ listClock' = today
    /\ remoteClips' = IF hasParameters THEN ClipsOf(allSearchedElements, today)
                                       ELSE Undefined
    /\ listPc' = "done"
    /\ UNCHANGED <<splitVars, hasParameters, responses, allSearchedElements, searches>>

ListNext ==
    \/ ListSplit
    \/ \E reply \in Replies, loggedIn \in BOOLEAN : ListSearch(reply, loggedIn)
    \/ \E today \in Todays : ListReturn(today)

(***************************************************************************)
(* onRequest (main.ts): the webhooks that serve a clip and its thumbnail.  *)
(* A request is its URL (what follows "http://localhost" up to the first   *)
(* slash, the path segments, the params query value), its Range header and *)
(* the clip file the path in params names.  A response is the body and the *)
(* options handed to send, sendFile or sendStream; sent lists them in      *)
(* order.  logged lists the console lines, sendVideo tells how the         *)
(* sendVideo promise of the handler was settled.                           *)
(***************************************************************************)
MaxFileSize == 11

\* String(n) of a natural number.
RECURSIVE Dec(_)
Dec(n) == IF n < 10 THEN <<Str(n)>> ELSE Dec(n \div 10) \o <<Str(n % 10)>>

IsDigit(c) == \E i \in 1..10 : HexDigits[i] = c

RECURSIVE DecimalPrefix(_)
DecimalPrefix(s) ==
    IF s # <<>> /\ IsDigit(s[1]) THEN <<s[1]>> \o DecimalPrefix(Tail(s)) ELSE <<>>

RECURSIVE DecimalValue(_)
DecimalValue(digits) ==
    IF digits = <<>> THEN 0
    ELSE HexDigitValue(digits[Len(digits)])
         + 10 * DecimalValue(SubSeq(digits, 1, Len(digits) - 1))

\* parseInt(s, 10) of a string without sign or leading white space.
ParseInt10(s) ==
    LET digits == DecimalPrefix(s)
    IN  IF digits = <<>> THEN NaN ELSE DecimalValue(digits)

\* s.replace(/bytes=/, ""): the first match is removed.
RECURSIVE RemoveFirst(_, _)
RemoveFirst(s, pattern) ==
    IF Len(s) < Len(pattern) THEN s
    ELSE IF SubSeq(s, 1, Len(pattern)) = pattern THEN SubSeq(s, Len(pattern) + 1, Len(s))
    ELSE <<s[1]>> \o RemoveFirst(Tail(s), pattern)

\* s.split(sep) for a separator of one character.
RECURSIVE Split(_, _)
Split(s, sep) ==
    IF \A i \in 1..Len(s) : s[i] # sep THEN <<s>>
    ELSE LET k == Min({ i \in 1..Len(s) : s[i] = sep })
         IN  <<SubSeq(s, 1, k - 1)>> \o Split(SubSeq(s, k + 1, Len(s)), sep)

BytesUnit == <<"b", "y", "t", "e", "s", "=">>

RangeParts(range) == Split(RemoveFirst(range, BytesUnit), "-")

RangeStart(range) == ParseInt10(RangeParts(range)[1])

\* parts[1] ? parseInt(parts[1], 10) : fileSize - 1
RangeEnd(range, fileSize) ==
    LET parts == RangeParts(range)
    IN  IF Len(parts) >= 2 /\ parts[2] # <<>> THEN ParseInt10(parts[2]) ELSE fileSize - 1

ChunkSizeExclusive(from, to) == to - from

ChunkSize(from, to) == (to - from) + 1

\* fs.createReadStream refuses a start or an end that is not a non-negative
\* integer, and a start after the end.
CreateReadStreamThrows(from, to) == from < 0 \/ to < 0 \/ from > to

\* The byte at offset k of the clip file is written k.
FileBytes(fileSize) == [i \in 1..fileSize |-> i - 1]

\* What the stream over {start, end} yields: it stops at the end of the file.
StreamBytes(fileSize, from, to) ==
    SubSeq(FileBytes(fileSize), from + 1, Min({to, fileSize - 1}) + 1)

RangeResponse(fileSize, range) ==
    LET from == RangeStart(range)
        to   == RangeEnd(range, fileSize)
    IN  [ body    |-> [kind |-> "bytes", bytes |-> StreamBytes(fileSize, from, to)],
          options |-> [ code    |-> 206,
                        headers |-> [ ContentRange  |-> <<"b", "y", "t", "e", "s", " ">> \o Dec(from)
                                                        \o <<"-">> \o Dec(to)
                                                        \o <<"/">> \o Dec(fileSize),
                                      AcceptRanges  |-> "bytes",
                                      ContentLength |-> ChunkSize(from, to),
                                      ContentType   |-> "video/mp4" ] ] ]

FileResponse(fileSize) ==
    [ body    |-> [kind |-> "bytes", bytes |-> FileBytes(fileSize)],
      options |-> [ code    |-> 200,
                    headers |-> [ContentLength |-> fileSize, ContentType |-> "video/mp4"] ] ]

ErrorResponse(code, text) ==
    [ body |-> [kind |-> "text", text |-> text], options |-> [code |-> code] ]

\* new URL(`http://localhost${request.url}`): what precedes the first slash
\* continues the host; a colon there starts a port, which has to be digits.
UrlThrows(url) ==
    /\ url.prefix # <<>>
    /\ url.prefix[1] = ":"
    /\ \E i \in 2..Len(url.prefix) : ~IsDigit(url.prefix[i])

\* const [_, __, ___, ____, _____, webhook] = url.pathname.split('/')
IsWebhook(url, name) == Len(url.pathname) >= 6 /\ url.pathname[6] = name

\* JSON.parse(params) throws on text that is not JSON; destructuring its
\* value throws on null.
JsonParseThrows(params) == params.kind \in {"text", "null"}

mixinsMap == [cam1 |-> [ftp |-> TRUE], cam2 |-> [ftp |-> FALSE]]

\* dev.console, dev being this.mixinsMap[deviceId]
DevConsoleThrows(params) ==
    params.kind = "absent" \/ params.deviceId \notin DOMAIN mixinsMap

\* httpResponse.statusCode[0]: a number has no indexed property.
Num(n) == [number |-> n]

IndexOfNumber(n, i) == Undefined

NoUpstream == [kind |-> "none"]

UpstreamReplies ==
    { [kind |-> "response", statusCode |-> c, headers |-> [ContentType |-> "video/mp4"]] :
        c \in {200, 206} }
    \cup { [kind |-> "response", statusCode |-> c, headers |-> [ContentType |-> "text/html"]] :
             c \in {400, 404, 500} }
    \cup { [kind |-> "error"] }

Pathnames ==
    { <<"", "endpoint", "@apocaliss92", "scrypted-reolink-videoclips", "public", w>> :
        w \in {"videoclip", "thumbnail", "other"} }
    \cup { <<"", "endpoint", "@apocaliss92", "scrypted-reolink-videoclips", "public">> }

\* videoclipPath of params: the fullPath of an entry of the device's
\* snapshot, under its ftpFolder, or the path of another file of the host.
SnapshotPaths == {"/ftp/cam1/clip.mp4"}

VideoclipPaths == SnapshotPaths \cup {"/etc/passwd"}

ParamValues ==
    { [kind |-> "absent"], [kind |-> "text"], [kind |-> "null"] }
    \cup { [kind |-> "object", deviceId |-> d, videoclipPath |-> v] :
             d \in {"cam1", "cam2", "cam3"}, v \in VideoclipPaths }

RangeHeaders ==
    { <<>> }
    \cup { BytesUnit \o Dec(s) \o <<"-">> \o Dec(e) : s \in 0..MaxFileSize, e \in 0..MaxFileSize }
    \cup { BytesUnit \o Dec(s) \o <<"-">> : s \in 0..MaxFileSize }
    \cup { BytesUnit \o <<"-">> \o Dec(e) : e \in 0..MaxFileSize }

Requests ==
    { [ url  |-> [ prefix   |-> <<>>,
                   pathname |-> <<"", "endpoint", "@apocaliss92", "scrypted-reolink-videoclips",
                                  "public", "videoclip">>,
                   params   |-> [kind |-> "object", deviceId |-> "cam1", videoclipPath |-> v] ],
        range |-> r, fileExists |-> TRUE, fileSize |-> n ] :
        r \in RangeHeaders, n \in 0..MaxFileSize, v \in VideoclipPaths }
    \cup
    { [ url  |-> [prefix |-> x, pathname |-> p, params |-> q],
        range |-> <<>>, fileExists |-> f, fileSize |-> 1 ] :
        x \in { <<>>, <<":", "8", "0">>, <<":", "x">> },
        p \in Pathnames, q \in ParamValues, f \in BOOLEAN }

HttpIdle ==
    /\ request = <<>>
    /\ httpPc = "off"
    /\ sent = <<>>
    /\ logged = <<>>
    /\ upstream = NoUpstream
    /\ sendVideo = "none"

HttpInit ==
    /\ request \in Requests
    /\ httpPc = "request"
    /\ sent = <<>>
    /\ logged = <<>>
    /\ upstream = NoUpstream
    /\ sendVideo = "none"

\* The inner catch: the error is logged and answered with 400.
InnerCatch(cause) ==
    /\ logged' = Append(logged, "Error in webhook")
    /\ sent' = Append(sent, ErrorResponse(400, cause))
    /\ httpPc' = "done"

\* onRequest up to its first await on the network.  sendStreamOk tells
\* whether response.sendStream returns or throws.
OnRequest(sendStreamOk) ==
    /\ httpPc = "request"
    /\ UNCHANGED <<request, upstream>>
    /\ IF UrlThrows(request.url)
       THEN /\ httpPc' = "rejected"
            /\ UNCHANGED <<sent, logged, sendVideo>>
       ELSE IF JsonParseThrows(request.url.params) \/ DevConsoleThrows(request.url.params)
       THEN /\ logged' = Append(logged, "Error in data parsing for webhook")
            /\ sent' = Append(sent, ErrorResponse(500, "Error in data parsing for webhook"))
            /\ httpPc' = "done"
            /\ UNCHANGED sendVideo
       ELSE IF IsWebhook(request.url, "videoclip")
       THEN IF mixinsMap[request.url.params.deviceId].ftp
            THEN IF ~request.fileExists
                 THEN InnerCatch("ENOENT") /\ UNCHANGED sendVideo
                 ELSE IF request.range # <<>>
                 THEN IF CreateReadStreamThrows(RangeStart(request.range),
                                                RangeEnd(request.range, request.fileSize))
                      THEN InnerCatch("ERR_OUT_OF_RANGE") /\ UNCHANGED sendVideo
                      ELSE IF sendStreamOk
                      THEN /\ sent' = Append(sent, RangeResponse(request.fileSize, request.range))
                           /\ sendVideo' = "resolved"
                           /\ httpPc' = "done"
                           /\ UNCHANGED logged
                      ELSE /\ logged' = Append(logged, "Error fetching videoclip")
                           /\ sendVideo' = "rejected"
                           /\ httpPc' = "done"
                           /\ UNCHANGED sent
                 ELSE /\ sent' = Append(sent, FileResponse(request.fileSize))
                      /\ httpPc' = "done"
                      /\ UNCHANGED <<logged, sendVideo>>
            ELSE /\ httpPc' = "getClient"
                 /\ UNCHANGED <<sent, logged, sendVideo>>
       ELSE IF IsWebhook(request.url, "thumbnail")
       THEN /\ logged' = Append(logged, "Thumbnail requested")
            /\ httpPc' = "thumbnail"
            /\ UNCHANGED <<sent, sendVideo>>
       ELSE /\ sent' = Append(sent, ErrorResponse(404, "Webhook not found"))
            /\ httpPc' = "done"
            /\ UNCHANGED <<logged, sendVideo>>

\* await dev.getClient(); await api.getVideoClipUrl(videoclipPath, deviceId)
GetVideoClipUrl(ok) ==
    /\ httpPc = "getClient"
    /\ UNCHANGED <<request, upstream, sendVideo>>
    /\ IF ok
       THEN httpPc' = "upstream" /\ UNCHANGED <<sent, logged>>
       ELSE InnerCatch("getVideoClipUrl")

\* The sendVideo promise rejected: its catch logs, and the handler goes on
\* to the statement after the inner try.
SendVideoRejected(lines) ==
    /\ logged' = logged \o lines \o <<"Error fetching videoclip">>
    /\ sendVideo' = "rejected"
    /\ sent' = Append(sent, ErrorResponse(404, "Webhook not found"))

\* http.get answers, or emits 'error'.
Upstream(reply, sendStreamOk) ==
    /\ httpPc = "upstream"
    /\ upstream' = reply
    /\ httpPc' = "done"
    /\ UNCHANGED request
    /\ IF reply.kind = "response"
       THEN IF IndexOfNumber(reply.statusCode, 0) = Num(400)
            THEN SendVideoRejected(<<>>)
            ELSE IF sendStreamOk
            THEN /\ sent' = Append(sent, [ body    |-> [kind |-> "upstream", statusCode |-> reply.statusCode],
                                           options |-> [headers |-> reply.headers] ])
                 /\ sendVideo' = "resolved"
                 /\ UNCHANGED logged
            ELSE SendVideoRejected(<<>>)
       ELSE SendVideoRejected(<<"Error fetching videoclip">>)

\* await dev.getVideoClipThumbnail; await convertMediaObjectToBuffer
Thumbnail(outcome) ==
    /\ httpPc = "thumbnail"
    /\ UNCHANGED <<request, upstream, sendVideo>>
    /\ IF outcome = "jpeg"
       THEN /\ sent' = Append(sent, [ body    |-> [kind |-> "jpeg"],
                                      options |-> [headers |-> [ContentType |-> "image/jpeg"]] ])
            /\ httpPc' = "done"
            /\ UNCHANGED logged
       ELSE InnerCatch(outcome)

HttpNext ==
    \/ \E sendStreamOk \in BOOLEAN : OnRequest(sendStreamOk)
    \/ \E ok \in BOOLEAN : GetVideoClipUrl(ok)
    \/ \E reply \in UpstreamReplies, sendStreamOk \in BOOLEAN : Upstream(reply, sendStreamOk)
    \/ \E outcome \in {"jpeg", "absent", "throw"} : Thumbnail(outcome)

(***************************************************************************)
(* getThumbnailMediaObject (utils.ts).  cache is the file at               *)
(* outputThumbnailFile: absent, empty (zero bytes) or jpeg.  Each get runs *)
(* from one await to the next in one step; gets of the same clip           *)
(* interleave at their awaits.  started[g] is what the get found at the    *)
(* cache path, gen[g] what its generation gave, alone[g] whether no other  *)
(* get has run a step since it started, thumbnailMo[g] what it returned.   *)
(* writers are the gets whose writeFile holds open the file that is at the *)
(* cache path: a file removed while it is written stays removed, the       *)
(* bytes written after that go to a file without a name.                   *)
(***************************************************************************)
NumGets == 2

Gets == 1..NumGets

KeepEntry(c) == c

\* existsSync && statSync.size === 0: the corrupted entry is removed.
AfterCorruptCheck(c) == IF c = "empty" THEN "absent" ELSE c

AlwaysSave(jpeg) == TRUE

\* if (jpeg.length)
ShouldSave(jpeg) == jpeg # "empty"

\* The synchronous head of the function: the file it leaves and the place
\* it goes to.
StartResult(c, shouldDownload) ==
    LET c1 == AfterCorruptCheck(c)
    IN  [ cache |-> c1,
          pc    |-> IF c1 = "absent" /\ shouldDownload THEN "ffmpeg"
                    ELSE IF c1 # "absent" THEN "createMo"
                    ELSE "done" ]

ThumbIdle ==
    /\ cache = "absent"
    /\ tpc = <<>>
    /\ thumbnailMo = <<>>
    /\ started = <<>>
    /\ gen = <<>>
    /\ alone = <<>>
    /\ writers = {}

ThumbInit ==
    /\ cache \in {"absent", "empty", "jpeg"}
    /\ tpc = [g \in Gets |-> "idle"]
    /\ thumbnailMo = [g \in Gets |-> "none"]
    /\ started = [g \in Gets |-> "none"]
    /\ gen = [g \in Gets |-> "none"]
    /\ alone = [g \in Gets |-> TRUE]
    /\ writers = {}

\* A step of g is a step the gets in progress are not alone for.
Others(g) ==
    [ k \in Gets |-> IF k # g /\ tpc[k] \notin {"idle", "done"} THEN FALSE ELSE alone[k] ]

\* if (fs.existsSync(outputThumbnailFile)) ...; return { thumbnailMo }
Serve(g, c) ==
    IF c # "absent"
    THEN tpc' = [tpc EXCEPT ![g] = "createMo"] /\ UNCHANGED thumbnailMo
    ELSE tpc' = [tpc EXCEPT ![g] = "done"] /\ thumbnailMo' = [thumbnailMo EXCEPT ![g] = "absent"]

\* The catch block: the file is removed and {} returned.
Catch(g) ==
    /\ cache' = "absent"
    /\ writers' = {}
    /\ tpc' = [tpc EXCEPT ![g] = "done"]
    /\ thumbnailMo' = [thumbnailMo EXCEPT ![g] = "absent"]

Start(g, shouldDownload) ==
    /\ tpc[g] = "idle"
    /\ cache' = StartResult(cache, shouldDownload).cache
    /\ tpc' = [tpc EXCEPT ![g] = StartResult(cache, shouldDownload).pc]
    /\ thumbnailMo' = [thumbnailMo EXCEPT ![g] =
                     IF StartResult(cache, shouldDownload).pc = "done" THEN "absent" ELSE @]
    /\ started' = [started EXCEPT ![g] = cache]
    /\ alone' = Others(g)
    /\ writers' = IF StartResult(cache, shouldDownload).cache = "absent" THEN {} ELSE writers
    /\ UNCHANGED gen

\* await mediaManager.createFFmpegMediaObject
Ffmpeg(g, ok) ==
    /\ tpc[g] = "ffmpeg"
    /\ alone' = Others(g)
    /\ UNCHANGED started
    /\ IF ok
       THEN tpc' = [tpc EXCEPT ![g] = "convert"] /\ UNCHANGED <<cache, thumbnailMo, gen, writers>>
       ELSE gen' = [gen EXCEPT ![g] = "threw"] /\ Catch(g)

\* await mediaManager.convertMediaObjectToBuffer, then the test of jpeg.length
Convert(g, jpeg) ==
    /\ tpc[g] = "convert"
    /\ alone' = Others(g)
    /\ UNCHANGED started
    /\ IF jpeg = "throw"
       THEN gen' = [gen EXCEPT ![g] = "threw"] /\ Catch(g)
       ELSE /\ gen' = [gen EXCEPT ![g] = jpeg]
            /\ UNCHANGED <<cache, writers>>
            /\ IF ShouldSave(jpeg)
               THEN tpc' = [tpc EXCEPT ![g] = "write"] /\ UNCHANGED thumbnailMo
               ELSE Serve(g, cache)

\* fs.promises.writeFile opens the file, which creates or truncates it.
WriteOpen(g) ==
    /\ tpc[g] = "write"
    /\ cache' = "empty"
    /\ writers' = (IF cache = "absent" THEN {g} ELSE writers \cup {g})
    /\ tpc' = [tpc EXCEPT ![g] = "writing"]
    /\ alone' = Others(g)
    /\ UNCHANGED <<thumbnailMo, started, gen>>

\* The write completes, or fails with the file left as it was opened.
WriteEnd(g, ok) ==
    /\ tpc[g] = "writing"
    /\ alone' = Others(g)
    /\ UNCHANGED <<started, gen>>
    /\ IF ok
       THEN /\ cache' = (IF g \in writers THEN gen[g] ELSE cache)
            /\ writers' = writers \ {g}
            /\ Serve(g, IF g \in writers THEN gen[g] ELSE cache)
       ELSE Catch(g)

\* await mediaManager.createMediaObjectFromUrl
CreateMo(g, ok) ==
    /\ tpc[g] = "createMo"
    /\ alone' = Others(g)
    /\ UNCHANGED <<started, gen>>
    /\ IF ok
       THEN /\ thumbnailMo' = [thumbnailMo EXCEPT ![g] = IF cache = "absent" THEN "missing" ELSE cache]
            /\ tpc' = [tpc EXCEPT ![g] = "done"]
            /\ UNCHANGED <<cache, writers>>
       ELSE Catch(g)

\* getVideoClipThumbnail of cameraMixin.ts passes no shouldDownload: the
\* function reads undefined, which its test takes for false.
GetVideoClipThumbnail(g) == Start(g, FALSE)

\* getVideoClipThumbnail of the earlier revisions of the mixin passes
\* shouldDownload: true.
GetVideoClipThumbnailDownload(g) == Start(g, TRUE)

ThumbNext ==
    \E g \in Gets :
        \/ GetVideoClipThumbnail(g)
        \/ GetVideoClipThumbnailDownload(g)
        \/ \E ok \in BOOLEAN : Ffmpeg(g, ok)
        \/ \E jpeg \in {"jpeg", "empty", "throw"} : Convert(g, jpeg)
        \/ WriteOpen(g)
        \/ \E ok \in BOOLEAN : WriteEnd(g, ok)
        \/ \E ok \in BOOLEAN : CreateMo(g, ok)

(***************************************************************************)
(* getVideoClipUrl (client.ts, both revisions): the download and playback  *)
(* URLs of a clip.  A string is the sequence of its pieces: a piece is one *)
(* character of the clip path or of the token, or a literal of the         *)
(* template, which holds no space.  The guarded revision awaits login()    *)
(* first; clientToken is this.parameters.token when the URLs are built.    *)
(***************************************************************************)
MaxPathLen == 4
PathChars == {"/", "a", " ", "."}
Paths == UNION { [1..n -> PathChars] : n \in 1..MaxPathLen }
Tokens == {<<"t", "1">>, <<"t", "2">>}

\* s.replace(pattern, replacement) with a string as pattern: the first
\* occurrence is replaced, the others stay.
RECURSIVE ReplaceFirst(_, _, _)
ReplaceFirst(s, pattern, replacement) ==
    IF Len(s) < Len(pattern) THEN s
    ELSE IF SubSeq(s, 1, Len(pattern)) = pattern
    THEN replacement \o SubSeq(s, Len(pattern) + 1, Len(s))
    ELSE <<s[1]>> \o ReplaceFirst(Tail(s), pattern, replacement)

\* The regular expression needs "Rec" and fourteen digits; a name without
\* them leaves groups empty, and the template prints undefined twice.
findStartTimeFromFileName(name) == <<"undefinedundefined">>

getVideoClipUrl(revision, path, token) ==
    LET parts == Split(path, "/")
        fileNameWithExtension == parts[Len(parts)]
        sanitizedPath == ReplaceFirst(path, <<" ">>, <<"%", "2", "0">>)
        timeStart == findStartTimeFromFileName(fileNameWithExtension)
    IN  IF revision = "guarded"
        THEN [downloadPath |-> <<"api.cgi?cmd=Download&source=">> \o sanitizedPath
                               \o <<"&output=">> \o fileNameWithExtension
                               \o <<"&token=">> \o token,
              playbackPath |-> <<"cgi-bin/api.cgi?cmd=Playback&source=">> \o sanitizedPath
                               \o <<"&start=">> \o timeStart
                               \o <<"&seek=0&token=">> \o token,
              fileName |-> Split(fileNameWithExtension, ".")[1],
              fileNameWithExtension |-> fileNameWithExtension]
        ELSE [downloadPath |-> <<"api.cgi?cmd=Download&source=">> \o path
                               \o <<"&output=">> \o fileNameWithExtension
                               \o <<"&token=">> \o token,
              playbackPath |-> <<"cgi-bin/api.cgi?cmd=Playback&source=">> \o path
                               \o <<"&output=">> \o fileNameWithExtension
                               \o <<"&token=">> \o token,
              fileName |-> Split(fileNameWithExtension, ".")[1],
              fileNameWithExtension |-> fileNameWithExtension]

NoUrls == [downloadPath |-> <<>>, playbackPath |-> <<>>,
           fileName |-> <<>>, fileNameWithExtension |-> <<>>]

UrlIdle ==
    /\ urlRevision = "guarded"
    /\ videoclipPath = <<>>
    /\ clientToken = <<>>
    /\ urlPc = "off"
    /\ urlResult = NoUrls

UrlInit ==
    /\ urlRevision \in {"guarded", "unguarded"}
    /\ videoclipPath \in Paths
    /\ clientToken \in Tokens
    /\ urlPc = "call"
    /\ urlResult = NoUrls

UrlCallGuarded ==
    /\ urlPc = "call"
    /\ urlRevision = "guarded"
    /\ urlResult' = getVideoClipUrl("guarded", videoclipPath, clientToken)
    /\ urlPc' = "done"
    /\ UNCHANGED <<urlRevision, videoclipPath, clientToken>>

UrlCallUnguarded ==
    /\ urlPc = "call"
    /\ urlRevision = "unguarded"
    /\ urlResult' = getVideoClipUrl("unguarded", videoclipPath, clientToken)
    /\ urlPc' = "done"
    /\ UNCHANGED <<urlRevision, videoclipPath, clientToken>>

UrlNext == UrlCallGuarded \/ UrlCallUnguarded

(***************************************************************************)
(* The life of a device handler (cameraMixin.ts, and the earlier revision  *)
(* that refreshes the token on a timer): its constructor, the settings     *)
(* whose onPut hook calls checkFtpScan, and release.  intervals are the    *)
(* handles of setInterval that no clearInterval has cancelled; passes      *)
(* counts the callbacks they have run.  putMixinSetting writes a setting   *)
(* to the storage and calls nothing else; the onPut hooks of               *)
(* storageSettings are checkFtpScan.  startFtpScan is declared async and   *)
(* holds no await, so checkFtpScan runs to its end in one step.            *)
(***************************************************************************)
MaxIntervals == 3
MaxPasses == 2

StoredSettings ==
    [ftp : BOOLEAN, ftpFolder : BOOLEAN, filenamePrefix : BOOLEAN]

\* stopFtpScan: clearInterval(this.ftpScanTimeout) when it is set.
stopFtpScan(active, handle) == IF handle # 0 THEN active \ {handle} ELSE active

\* checkFtpScan with the settings as they are stored: startFtpScan (which
\* stops the timer and sets a new one) or stopFtpScan.
checkFtpScan(values) ==
    IF values.ftp /\ values.ftpFolder
    THEN /\ intervals' = stopFtpScan(intervals, ftpScanTimeout) \cup {nextInterval}
         /\ ftpScanTimeout' = nextInterval
         /\ nextInterval' = nextInterval + 1
    ELSE /\ intervals' = stopFtpScan(intervals, ftpScanTimeout)
         /\ ftpScanTimeout' = 0
         /\ UNCHANGED nextInterval

TimerIdle ==
    /\ mixinRevision = "scan"
    /\ mixinPc = "off"
    /\ storage = [ftp |-> FALSE, ftpFolder |-> FALSE, filenamePrefix |-> FALSE]
    /\ ftpScanTimeout = 0
    /\ fetchTokenInterval = 0
    /\ intervals = {}
    /\ nextInterval = 1
    /\ killed = FALSE
    /\ registered = FALSE
    /\ passes = 0

TimerInit ==
    /\ mixinRevision \in {"scan", "token"}
    /\ mixinPc = "new"
    /\ storage \in StoredSettings
    /\ ftpScanTimeout = 0
    /\ fetchTokenInterval = 0
    /\ intervals = {}
    /\ nextInterval = 1
    /\ killed = FALSE
    /\ registered = FALSE
    /\ passes = 0

\* new ReolinkVideoclipssMixin(...): the handler enters mixinsMap and calls
\* checkFtpScan.
Constructor ==
    /\ mixinPc = "new"
    /\ mixinRevision = "scan"
    /\ mixinPc' = "live"
    /\ registered' = TRUE
    /\ checkFtpScan(storage)
    /\ UNCHANGED <<mixinRevision, storage, fetchTokenInterval, killed, passes>>

\* The constructor of the revision with the token timer.
ConstructorToken ==
    /\ mixinPc = "new"
    /\ mixinRevision = "token"
    /\ mixinPc' = "live"
    /\ registered' = TRUE
    /\ fetchTokenInterval' = nextInterval
    /\ intervals' = intervals \cup {nextInterval}
    /\ nextInterval' = nextInterval + 1
    /\ UNCHANGED <<mixinRevision, storage, ftpScanTimeout, killed, passes>>

\* putMixinSetting(key, value): this.storage.setItem(key, value).
putMixinSetting(name, to) ==
    /\ mixinPc = "live"
    /\ mixinRevision = "scan"
    /\ storage' = [storage EXCEPT ![name] = to]
    /\ UNCHANGED <<mixinRevision, mixinPc, ftpScanTimeout, fetchTokenInterval, intervals,
                   nextInterval, killed, registered, passes>>

\* A call of checkFtpScan on the handler: what an onPut hook does.
CheckFtpScan ==
    /\ mixinPc = "live"
    /\ mixinRevision = "scan"
    /\ nextInterval <= MaxIntervals
    /\ checkFtpScan(storage)
    /\ UNCHANGED <<mixinRevision, mixinPc, storage, fetchTokenInterval, killed, registered,
                   passes>>

\* A callback of an interval runs: a scan pass, or fetchToken.
IntervalFire(handle) ==
    /\ handle \in intervals
    /\ passes < MaxPasses
    /\ passes' = passes + 1
    /\ UNCHANGED <<mixinRevision, mixinPc, storage, ftpScanTimeout, fetchTokenInterval,
                   intervals, nextInterval, killed, registered>>

\* releaseMixin(id, mixinDevice): await mixinDevice.release().
Release ==
    /\ mixinPc = "live"
    /\ mixinPc' = "released"
    /\ killed' = TRUE
    /\ intervals' = (IF mixinRevision = "token" /\ fetchTokenInterval # 0
                     THEN intervals \ {fetchTokenInterval}
                     ELSE intervals)
    /\ UNCHANGED <<mixinRevision, storage, ftpScanTimeout, fetchTokenInterval,
                   nextInterval, registered, passes>>

TimerNext ==
    \/ Constructor
    \/ ConstructorToken
    \/ \E name \in {"ftp", "ftpFolder", "filenamePrefix"}, to \in BOOLEAN :
          putMixinSetting(name, to)
    \/ CheckFtpScan
    \/ \E handle \in 1..MaxIntervals : IntervalFire(handle)
    \/ Release

(***************************************************************************)
(* Specifications.                                                         *)
(***************************************************************************)
SplitSpecInit == SplitInit /\ ParseIdle /\ ClientIdle /\ ScanIdle /\ ListIdle /\ HttpIdle /\ ThumbIdle /\ UrlIdle /\ TimerIdle
SplitSpecNext == SplitNext /\ UNCHANGED <<parseVars, clientVars, scanVars, readVars, listVars, httpVars, thumbVars, urlVars, timerVars>>
SplitSpec == SplitSpecInit /\ [][SplitSpecNext]_vars

ParseSpecInit == ParseInit /\ SplitIdle /\ ClientIdle /\ ScanIdle /\ ListIdle /\ HttpIdle /\ ThumbIdle /\ UrlIdle /\ TimerIdle
ParseSpecNext == ParseNext /\ UNCHANGED <<splitVars, clientVars, scanVars, readVars, listVars, httpVars, thumbVars, urlVars, timerVars>>
ParseSpec == ParseSpecInit /\ [][ParseSpecNext]_vars

ClientSpecInit == ClientInit /\ SplitIdle /\ ParseIdle /\ ScanIdle /\ ListIdle /\ HttpIdle /\ ThumbIdle /\ UrlIdle /\ TimerIdle
ClientSpecNext == ClientNext /\ UNCHANGED <<splitVars, parseVars, scanVars, readVars, listVars, httpVars, thumbVars, urlVars, timerVars>>
ClientSpec == ClientSpecInit /\ [][ClientSpecNext]_vars

GuardedSpecInit == GuardedInit /\ SplitIdle /\ ParseIdle /\ ScanIdle /\ ListIdle /\ HttpIdle /\ ThumbIdle /\ UrlIdle /\ TimerIdle
GuardedSpecNext == GuardedNext /\ UNCHANGED <<splitVars, parseVars, scanVars, readVars, listVars, httpVars, thumbVars, urlVars, timerVars>>
GuardedSpec == GuardedSpecInit /\ [][GuardedSpecNext]_vars

ScanSpecInit == ScanInit /\ SplitIdle /\ ParseIdle /\ ClientIdle /\ ListIdle /\ HttpIdle /\ ThumbIdle /\ UrlIdle /\ TimerIdle
ScanSpecNext == ScanNext /\ UNCHANGED <<splitVars, parseVars, clientVars, listVars, httpVars, thumbVars, urlVars, timerVars>>
ScanSpec == ScanSpecInit /\ [][ScanSpecNext]_vars

ListSpecInit == ListInit /\ ParseIdle /\ ClientIdle /\ ScanIdle /\ HttpIdle /\ ThumbIdle /\ UrlIdle /\ TimerIdle
ListSpecNext == ListNext /\ UNCHANGED <<parseVars, clientVars, scanVars, readVars, httpVars, thumbVars, urlVars, timerVars>>
ListSpec == ListSpecInit /\ [][ListSpecNext]_vars

OverlapSpecInit == OverlapInit /\ SplitIdle /\ ParseIdle /\ ClientIdle /\ ListIdle /\ HttpIdle /\ ThumbIdle /\ UrlIdle /\ TimerIdle
OverlapSpecNext == ScanNext /\ UNCHANGED <<splitVars, parseVars, clientVars, listVars, httpVars, thumbVars, urlVars, timerVars>>
OverlapSpec == OverlapSpecInit /\ [][OverlapSpecNext]_vars

HttpSpecInit == HttpInit /\ SplitIdle /\ ParseIdle /\ ClientIdle /\ ScanIdle /\ ListIdle /\ ThumbIdle /\ UrlIdle /\ TimerIdle
HttpSpecNext ==
    HttpNext /\ UNCHANGED <<splitVars, parseVars, clientVars, scanVars, readVars, listVars, thumbVars, urlVars, timerVars>>
HttpSpec == HttpSpecInit /\ [][HttpSpecNext]_vars

ThumbSpecInit == ThumbInit /\ SplitIdle /\ ParseIdle /\ ClientIdle /\ ScanIdle /\ ListIdle /\ HttpIdle /\ UrlIdle /\ TimerIdle
ThumbSpecNext ==
    ThumbNext /\ UNCHANGED <<splitVars, parseVars, clientVars, scanVars, readVars, listVars, httpVars, urlVars, timerVars>>
ThumbSpec == ThumbSpecInit /\ [][ThumbSpecNext]_vars

UrlSpecInit == UrlInit /\ SplitIdle /\ ParseIdle /\ ClientIdle /\ ScanIdle /\ ListIdle /\ HttpIdle /\ ThumbIdle /\ TimerIdle
UrlSpecNext ==
    UrlNext /\ UNCHANGED <<splitVars, parseVars, clientVars, scanVars, readVars, listVars, httpVars,
                           thumbVars, timerVars>>
UrlSpec == UrlSpecInit /\ [][UrlSpecNext]_vars

TimerSpecInit == TimerInit /\ SplitIdle /\ ParseIdle /\ ClientIdle /\ ScanIdle /\ ListIdle /\ HttpIdle /\ ThumbIdle /\ UrlIdle
TimerSpecNext ==
    TimerNext /\ UNCHANGED <<splitVars, parseVars, clientVars, scanVars, readVars, listVars, httpVars,
                             thumbVars, urlVars>>
TimerSpec == TimerSpecInit /\ [][TimerSpecNext]_vars

(***************************************************************************)
(* C1.  Whenever splitDateRangeByDay(start, end) returns for start <= end, *)
(* its windows are ordered ascending (each window's start is not after its *)
(* end and before the next window's start), contiguous (each window starts *)
(* one millisecond after the previous one ends), cover exactly [start,     *)
(* end] (the first starts at start, the last ends at end), and each window *)
(* spans at most one day: it ends at most DayMs after it starts.           *)
(***************************************************************************)
WindowsOrdered(w) ==
    /\ \A i \in 1..Len(w) : w[i].start <= w[i].end
    /\ \A i \in 1..(Len(w) - 1) : w[i].end < w[i + 1].start
WindowsContiguous(w) ==
    \A i \in 1..(Len(w) - 1) : w[i + 1].start = w[i].end + 1
WindowsCover(w, s, e) ==
    /\ Len(w) >= 1
    /\ w[1].start = s
    /\ w[Len(w)].end = e
WindowsWithinDay(w) ==
    \A i \in 1..Len(w) : w[i].end - w[i].start <= DayMs

C1_SplitWindows ==
    (splitPc = "done" /\ start <= end) =>
        /\ WindowsOrdered(ranges)
        /\ WindowsContiguous(ranges)
        /\ WindowsCover(ranges, start, end)
        /\ WindowsWithinDay(ranges)

(***************************************************************************)
(* C10.  Round trip: decoding the flags word that packs an assignment of   *)
(* in-range values to the flags of a supported (family, version) table     *)
(* gives every flag its assigned value, the flags whose bit offset or      *)
(* offset plus width exceeds 31 included.                                  *)
(***************************************************************************)
C10_RoundTrip ==
    (parsePc = "done" /\ flagAssign # <<>>) =>
        /\ parsed # Undefined
        /\ \A name \in DOMAIN flagAssign : parsed.flagValues[name] = flagAssign[name]

(***************************************************************************)
(* C11.  For every supported (family, version) and every flags word, the   *)
(* detection classes decoded from the word contain person exactly when the *)
(* person-detect flag of the word is 1, vehicle exactly when the           *)
(* vehicle-detect flag is 1, face exactly when the face-detect flag is 1,  *)
(* animal exactly when the animal-detect flag is 1, and motion exactly     *)
(* when the motion-record flag is 1 or the other-AI flag is 1; the word    *)
(* with only the person bit set decodes for cam version 2 to [person].     *)
(***************************************************************************)
OtherAiFlag(assign) ==
    IF "ai_other" \in DOMAIN assign THEN assign["ai_other"] ELSE assign["is_ai_other_record"]

HasClass(classes, class) == \E i \in 1..Len(classes) : classes[i] = class

C11_DetectionClasses ==
    (parsePc = "done" /\ flagAssign # <<>>) =>
        /\ parsed # Undefined
        /\ HasClass(parsed.detectionClasses, "person") <=> (flagAssign["ai_pd"] = 1)
        /\ HasClass(parsed.detectionClasses, "vehicle") <=> (flagAssign["ai_vd"] = 1)
        /\ HasClass(parsed.detectionClasses, "face") <=> (flagAssign["ai_fd"] = 1)
        /\ HasClass(parsed.detectionClasses, "animal") <=> (flagAssign["ai_ad"] = 1)
        /\ HasClass(parsed.detectionClasses, "motion")
               <=> (flagAssign["is_motion_record"] = 1 \/ OtherAiFlag(flagAssign) = 1)
        /\ (fileName = GoodCamName) => parsed.detectionClasses = <<"person">>

(***************************************************************************)
(* C12.  A file name whose field count is neither 6 nor 9, whose flags or  *)
(* size segment is not hexadecimal, or whose version has no table, decodes *)
(* to a decode error (no size, no detection classes), never to a decoded   *)
(* result.                                                                 *)
(***************************************************************************)
C12_MalformedNameIsDecodeError ==
    (parsePc = "done" /\ fileName \in MalformedNames) => parsed = Undefined

(***************************************************************************)
(* C2.  No authenticated call builds or sends its token-bearing request    *)
(* while the lease has run out (tokenLease <= now), unless a login         *)
(* completed in that call first.                                           *)
(***************************************************************************)
C2_NoCallOnExpiredLease ==
    \A p \in Callers :
        (callPc[p] = "sent") => callBuilt[p].leaseOk

(***************************************************************************)
(* C3.  At most one login round trip (getLoginParameters) of a client is   *)
(* in flight at any time.                                                  *)
(***************************************************************************)
C3_SingleFlight == Cardinality(InFlight) <= 1

(***************************************************************************)
(* C4.  A caller that invokes login() while another login is in flight     *)
(* does not start a second login, and the code after its await (the        *)
(* building and sending of its authenticated request) does not run while   *)
(* that login is still in flight.                                          *)
(***************************************************************************)
InvokedLogin(p) ==
    callPc[p] # "idle" /\ ~(variant = "unguarded" /\ callOp[p] = "getVideoClipUrl")

C4_WaitsForLoginInFlight ==
    \A p \in Callers :
        (InvokedLogin(p) /\ callSaw[p].inFlight) =>
            /\ ~callLogin[p]
            /\ (callOp[p] # "login" /\ callPc[p] \in {"sent", "threw"}) => ~callBuilt[p].early

(***************************************************************************)
(* C5.  Once the lease has run out, the next authenticated call (one made  *)
(* with the lease expired and no login in flight) performs a new login,    *)
(* whatever calls of login() were made while the lease was valid.  Stated  *)
(* for the runs in which no login has failed.                              *)
(***************************************************************************)
C5_ExpiredLeaseLogsIn ==
    \A p \in Callers :
        (callPc[p] # "idle" /\ callSaw[p].expired /\ ~callSaw[p].inFlight /\ ~failed)
            => callLogin[p]

(***************************************************************************)
(* C6.  A listing that reads ftpScanData observes a complete snapshot:     *)
(* the items it has iterated so far are the beginning of a snapshot that   *)
(* some pass published (or of the initial empty one), and when it returns  *)
(* the items it iterated are exactly one such snapshot, whatever a scan    *)
(* pass did in between.                                                    *)
(***************************************************************************)
IsPrefix(a, b) == Len(a) <= Len(b) /\ SubSeq(b, 1, Len(a)) = a

C6_AtomicSnapshot ==
    /\ (readPc = "reading") => \E snapshot \in published : IsPrefix(readSeen, snapshot)
    /\ (readPc = "done") => readSeen \in published

\* A listing is in the middle of its iteration of one snapshot while a pass
\* has already published a different one.
C6_Witness ==
    /\ readPc = "reading"
    /\ readIdx >= 1
    /\ readIdx < Len(heap[readRef])
    /\ ftpScanData # readRef
    /\ heap[ftpScanData] # heap[readRef]

(***************************************************************************)
(* C9.  A pass over a folder without sub-directories whose readdir         *)
(* succeeds does not raise and publishes exactly the well-formed files it  *)
(* listed (the plain files that pass the name filter and hold a            *)
(* timestamp), each once and in listing order, however many files with an  *)
(* unparseable timestamp the folder holds.                                 *)
(***************************************************************************)
Flat(listed, prefix) ==
    ~ \E f \in listed : FileTable[f].isDir /\ Filter(f, prefix)

WellFormed(f, prefix) ==
    Filter(f, prefix) /\ ~FileTable[f].isDir /\ FileTable[f].time # NoTime

WellFormedFiles(listed, prefix) ==
    LET ids == Ascending({f \in listed : WellFormed(f, prefix)})
    IN  [i \in 1..Len(ids) |-> FileData(ids[i])]

C9_MalformedFilesSkipped ==
    (lastPass.outcome \notin {"none", "readdir"} /\ Flat(lastPass.listed, lastPass.prefix)) =>
        /\ lastPass.outcome = "published"
        /\ lastPass.result = WellFormedFiles(lastPass.listed, lastPass.prefix)

\* A pass published two well-formed files of a folder that also held a
\* file without a timestamp.
C9_Witness ==
    /\ lastPass.outcome = "published"
    /\ Flat(lastPass.listed, lastPass.prefix)
    /\ \E f \in lastPass.listed :
          Filter(f, lastPass.prefix) /\ ~FileTable[f].isDir /\ FileTable[f].time = NoTime
    /\ Len(lastPass.result) >= 2

(***************************************************************************)
(* C7.  When the listing has returned, every hit whose name the decoder    *)
(* fails on (parseVideoclipName yields no result) has its clip in the      *)
(* result, with empty detectionClasses.                                    *)
(***************************************************************************)
HasClip(clips, name) ==
    IF clips = Undefined THEN FALSE
    ELSE \E j \in 1..Len(clips) : clips[j].id = name /\ clips[j].detectionClasses = <<>>

C7_UndecodedHitKept ==
    (listPc = "done") =>
        \A i \in 1..Len(allSearchedElements) :
            parseVideoclipName(allSearchedElements[i].name) = Undefined
                => HasClip(remoteClips, allSearchedElements[i].name)

(***************************************************************************)
(* C8.  When the listing has returned, a window whose Search met a         *)
(* protocol error or threw has contributed no hits, the hits of the other  *)
(* windows are returned, and the listing has not failed: its result is the *)
(* list of the clips of the hits of the windows that were answered, in     *)
(* window order.                                                           *)
(***************************************************************************)
RECURSIVE AnsweredHits(_)
AnsweredHits(rs) ==
    IF rs = <<>> THEN <<>>
    ELSE (IF Head(rs).kind = "ok" THEN Head(rs).File ELSE <<>>) \o AnsweredHits(Tail(rs))

C8_FailedWindowIsEmpty ==
    (listPc = "done" /\ \E i \in 1..Len(responses) : responses[i].kind # "ok") =>
        /\ allSearchedElements = AnsweredHits(responses)
        /\ remoteClips = ClipsOf(AnsweredHits(responses), listClock)

(***************************************************************************)
(* Properties of onRequest.                                                *)
(***************************************************************************)
IsRequest(webhook) ==
    /\ request # <<>>
    /\ ~UrlThrows(request.url)
    /\ request.url.params.kind = "object"
    /\ IsWebhook(request.url, webhook)

KnownDevice == request.url.params.deviceId \in DOMAIN mixinsMap

\* The status a response carries; the host answers 200 when none is given.
CodeOf(r) == IF "code" \in DOMAIN r.options THEN r.options.code ELSE 200

(***************************************************************************)
(* C13.  On an ftp device a videoclip request with Range                   *)
(* bytes=<start>-<end?>, 0 <= start <= end < fileSize (end defaulting to   *)
(* fileSize - 1), is answered with status 206, Content-Range               *)
(* "bytes <start>-<end>/<fileSize>", Accept-Ranges bytes, Content-Length   *)
(* end - start + 1, Content-Type video/mp4, and a body of exactly the      *)
(* bytes start..end of the file.                                           *)
(***************************************************************************)
C13_RangeResponse ==
    \A s \in 0..MaxFileSize, e \in 0..MaxFileSize :
        ( /\ httpPc = "done"
          /\ sendVideo = "resolved"
          /\ IsRequest("videoclip") /\ KnownDevice
          /\ mixinsMap[request.url.params.deviceId].ftp
          /\ request.fileExists
          /\ s <= e /\ e < request.fileSize
          /\ \/ request.range = BytesUnit \o Dec(s) \o <<"-">> \o Dec(e)
             \/ request.range = BytesUnit \o Dec(s) \o <<"-">> /\ e = request.fileSize - 1 )
        => /\ Len(sent) = 1
           /\ sent[1].options.code = 206
           /\ sent[1].options.headers =
                  [ ContentRange  |-> <<"b", "y", "t", "e", "s", " ">> \o Dec(s) \o <<"-">>
                                      \o Dec(e) \o <<"/">> \o Dec(request.fileSize),
                    AcceptRanges  |-> "bytes",
                    ContentLength |-> e - s + 1,
                    ContentType   |-> "video/mp4" ]
           /\ sent[1].body = [kind |-> "bytes", bytes |-> [i \in 1..(e - s + 1) |-> s + i - 1]]

\* A range of several bytes strictly inside a file, answered.
C13_Witness ==
    /\ httpPc = "done"
    /\ sendVideo = "resolved"
    /\ IsRequest("videoclip")
    /\ request.range = BytesUnit \o Dec(2) \o <<"-">> \o Dec(10)
    /\ request.fileSize = MaxFileSize
    /\ Len(sent) = 1
    /\ sent[1].options.code = 206
    /\ Len(sent[1].body.bytes) = 9

(***************************************************************************)
(* C14.  In the remote proxy an upstream answer with a 4xx status is a     *)
(* delivery failure: it is not streamed to the client as a success.        *)
(***************************************************************************)
C14_Upstream4xxIsFailure ==
    (httpPc = "done" /\ upstream.kind = "response" /\ upstream.statusCode \in 400..499) =>
        /\ sendVideo = "rejected"
        /\ \A i \in 1..Len(sent) : sent[i].body.kind # "upstream"

(***************************************************************************)
(* C15.  Whenever a stream cannot be started (sendVideo rejects, in the    *)
(* local range path or in the remote path), the client receives an         *)
(* explicit error status with a payload and the failure is logged.         *)
(***************************************************************************)
C15_StreamFailureReported ==
    (httpPc = "done" /\ sendVideo = "rejected") =>
        /\ Len(sent) = 1
        /\ CodeOf(sent[1]) >= 400
        /\ sent[1].body.kind = "text"
        /\ \E i \in 1..Len(logged) : logged[i] = "Error fetching videoclip"

(***************************************************************************)
(* C16.  A request with a valid envelope and a known device whose webhook  *)
(* name is neither videoclip nor thumbnail is answered 404, and 404 is     *)
(* answered only to such requests.                                         *)
(***************************************************************************)
UnknownWebhook ==
    /\ ~UrlThrows(request.url)
    /\ request.url.params.kind = "object"
    /\ KnownDevice
    /\ ~IsWebhook(request.url, "videoclip")
    /\ ~IsWebhook(request.url, "thumbnail")

C16_NotFoundOnlyForUnknownWebhook ==
    (httpPc = "done") =>
        /\ UnknownWebhook => (Len(sent) = 1 /\ CodeOf(sent[1]) = 404)
        /\ (\E i \in 1..Len(sent) : CodeOf(sent[i]) = 404) => UnknownWebhook

(***************************************************************************)
(* C17.  A malformed envelope (params that are not JSON, or a URL that     *)
(* cannot be parsed) is answered 500 with a diagnostic body; no exception  *)
(* leaves onRequest.                                                       *)
(***************************************************************************)
C17_MalformedEnvelopeIs500 ==
    ( /\ httpPc \in {"done", "rejected"}
      /\ (UrlThrows(request.url) \/ request.url.params.kind = "text") )
    => /\ httpPc = "done"
       /\ Len(sent) = 1
       /\ CodeOf(sent[1]) = 500
       /\ sent[1].body.kind = "text"

(***************************************************************************)
(* C18.  A well-formed videoclip or thumbnail request that names a device  *)
(* absent from mixinsMap is answered 400; the handler does not crash.      *)
(***************************************************************************)
C18_UnknownDeviceIs400 ==
    ( /\ httpPc \in {"done", "rejected"}
      /\ (IsRequest("videoclip") \/ IsRequest("thumbnail"))
      /\ ~KnownDevice )
    => /\ httpPc = "done"
       /\ Len(sent) = 1
       /\ CodeOf(sent[1]) = 400

(***************************************************************************)
(* C19.  getThumbnailMediaObject treats an existing zero-byte cache entry  *)
(* as corrupt: it deletes the entry and then goes on exactly as it does    *)
(* when nothing is cached.                                                 *)
(***************************************************************************)
C19_CorruptEntryDeleted ==
    [][ \A g \in Gets, shouldDownload \in BOOLEAN :
          (cache = "empty" /\ Start(g, shouldDownload)) =>
              /\ cache' = "absent"
              /\ tpc'[g] = (IF shouldDownload THEN "ffmpeg" ELSE "done")
              /\ <<cache', tpc'[g]>> = << StartResult("absent", shouldDownload).cache,
                                         StartResult("absent", shouldDownload).pc >> ]_vars

\* A get that found a zero-byte entry has generated and returned the thumbnail.
C19_Witness ==
    \E g \in Gets :
        /\ started[g] = "empty"
        /\ tpc[g] = "done"
        /\ alone[g]
        /\ gen[g] = "jpeg"
        /\ thumbnailMo[g] = "jpeg"
        /\ cache = "jpeg"

(***************************************************************************)
(* C20.  When the generation throws or yields an empty output, the get     *)
(* returns an absent thumbnail and leaves no file at the cache path; it    *)
(* returns, it does not throw.                                             *)
(***************************************************************************)
C20_FailedGenerationLeavesNothing ==
    [][ \A g \in Gets :
          (tpc[g] # "done" /\ tpc'[g] = "done" /\ alone'[g] /\ gen'[g] \in {"threw", "empty"}) =>
              /\ thumbnailMo'[g] = "absent"
              /\ cache' = "absent" ]_vars

\* A get whose generation gave an empty image has returned.
C20_Witness ==
    \E g \in Gets :
        /\ tpc[g] = "done"
        /\ alone[g]
        /\ started[g] \in {"absent", "empty"}
        /\ gen[g] = "empty"
        /\ thumbnailMo[g] = "absent"

(***************************************************************************)
(* C21.  A thumbnail webhook request for a clip that has no cached entry   *)
(* requests generation: the frame extractor is invoked, its non-empty      *)
(* output is written to the cache path and served; a later request is      *)
(* served from the cache without invoking the extractor again.             *)
(***************************************************************************)
C21_WebhookGeneratesThumbnail ==
    [][ \A g \in Gets :
          /\ (cache = "absent" /\ GetVideoClipThumbnail(g)) => tpc'[g] = "ffmpeg"
          /\ (cache = "jpeg" /\ GetVideoClipThumbnail(g)) => tpc'[g] = "createMo" ]_vars

(***************************************************************************)
(* C22.  Concurrent gets of the same clip are safe: while a get is writing *)
(* its entry no other get removes that entry, so that after a successful   *)
(* generation the entry is at the cache path and the get returns it.       *)
(***************************************************************************)
C22_ConcurrentGetsSafe ==
    [][ \A h \in Gets :
          (tpc[h] = "writing" /\ h \in writers /\ tpc'[h] = "writing") => h \in writers' ]_vars

(***************************************************************************)
(* C23.  The device's background timer forces a fresh login at every       *)
(* firing, also while the lease of the current token has not run out.      *)
(***************************************************************************)
C23_TimerForcesLogin ==
    [][ \A p \in Callers : (LeaseValid /\ FetchToken(p)) => callLogin'[p] ]_vars

(***************************************************************************)
(* C24.  A login that fails inside an authenticated call is followed by a  *)
(* second login and a retry within the same call: the failure of the first *)
(* login does not reach the caller.                                        *)
(***************************************************************************)
C24_RetryAfterSessionError ==
    [][ \A p \in Callers :
          (callOp[p] # "login" /\ callPc[p] = "fetching") => callPc'[p] # "threw" ]_vars

(***************************************************************************)
(* C25.  processDate returns the instant of local time that has the fields *)
(* found in the file name and zero milliseconds, whatever the instant at   *)
(* which it runs: every clip of the filesystem listing starts at the exact *)
(* instant of its file's fields.                                           *)
(***************************************************************************)
ExactInstant(time) ==
    getTime([year |-> 0, mon |-> time.mon, day |-> time.day, sec |-> time.sec, ms |-> 0])

C25_ProcessDateExact ==
    \A i \in 1..Len(videoclips) :
        videoclips[i].startTime = ExactInstant(FileTable[videoclips[i].id].time)

(***************************************************************************)
(* C28.  The filesystem listing returns one clip for each entry of the     *)
(* snapshot it read that is a video and whose timestamp lies between the   *)
(* start and the end asked for, in the snapshot's order, and no other      *)
(* clip; the snapshot is left as it was published.                         *)
(***************************************************************************)
InRangeVideo(item) ==
    /\ item.type = "video"
    /\ ExactInstant(item.time) >= options.startTime
    /\ ExactInstant(item.time) <= options.endTime

C28_ListingMatchesSnapshot ==
    readPc = "done" =>
        /\ readSeen \in published
        /\ Len(videoclips) = Len(SelectSeq(readSeen, InRangeVideo))
        /\ \A i \in 1..Len(videoclips) :
               videoclips[i].id = SelectSeq(readSeen, InRangeVideo)[i].fullPath

(***************************************************************************)
(* C26.  splitDateRangeByDay returns for every start and end: with at      *)
(* least one window when start <= end, the single window [start, start]    *)
(* when they are equal, and with no window exactly when start > end.       *)
(***************************************************************************)
C26_SplitTerminates ==
    /\ splitPc # "looping"
    /\ splitPc = "done" =>
          /\ (ranges = <<>>) <=> (start > end)
          /\ start = end => ranges = <<[start |-> start, end |-> end]>>

(***************************************************************************)
(* C27.  When the remote listing has returned it has sent one Search per   *)
(* window, in the order of the windows; the StartTime and the EndTime of   *)
(* every Search are on the same calendar day; and the clips returned are   *)
(* those of the hits of the windows, one per hit, in window order.         *)
(***************************************************************************)
C27_OneSearchPerWindow ==
    (listPc = "done") =>
        /\ Len(searches) = Len(ranges)
        /\ \A i \in 1..Len(searches) :
              /\ searches[i].StartTime = TimeFields(zone, ranges[i].start)
              /\ searches[i].StartTime.day = searches[i].EndTime.day
        /\ \A i \in 1..(Len(ranges) - 1) : ranges[i].start < ranges[i + 1].start
        /\ IF remoteClips = Undefined THEN FALSE
           ELSE /\ Len(remoteClips) = Len(AnsweredHits(responses))
                /\ \A j \in 1..Len(remoteClips) :
                      remoteClips[j].id = AnsweredHits(responses)[j].name

(***************************************************************************)
(* C29.  In the remote proxy, an upstream answer that is not an error      *)
(* reaches the client as it is: the response carries the status code, the  *)
(* headers and the body of the upstream answer (a 206 arrives as a 206).   *)
(***************************************************************************)
C29_UpstreamPassedThrough ==
    (/\ httpPc = "done"
     /\ upstream.kind = "response"
     /\ upstream.statusCode < 400
     /\ sendVideo = "resolved") =>
        /\ Len(sent) = 1
        /\ sent[1].body = [kind |-> "upstream", statusCode |-> upstream.statusCode]
        /\ sent[1].options.headers = upstream.headers
        /\ CodeOf(sent[1]) = upstream.statusCode

(***************************************************************************)
(* C30.  The download and the playback URL of getVideoClipUrl end with the *)
(* token the client holds and contain no space: every space of the clip    *)
(* path is encoded, not only the first.                                    *)
(***************************************************************************)
NoSpace(url) == \A i \in 1..Len(url) : url[i] # " "

CarriesToken(url, token) ==
    /\ Len(url) > Len(token)
    /\ SubSeq(url, Len(url) - Len(token) + 1, Len(url)) = token
    /\ url[Len(url) - Len(token)] \in {"&token=", "&seek=0&token="}

C30_UrlsEncodedWithToken ==
    (urlPc = "done") =>
        /\ CarriesToken(urlResult.downloadPath, clientToken)
        /\ CarriesToken(urlResult.playbackPath, clientToken)
        /\ NoSpace(urlResult.downloadPath)
        /\ NoSpace(urlResult.playbackPath)

(***************************************************************************)
(* C31.  Every invocation of onRequest that has finished has sent exactly  *)
(* one response, and no invocation has ever sent more than one.            *)
(***************************************************************************)
C31_ExactlyOneResponse ==
    /\ Len(sent) <= 1
    /\ httpPc \in {"done", "rejected"} => Len(sent) = 1

(***************************************************************************)
(* C32.  Every 206 response of the local-file branch has a Content-Length  *)
(* equal to the number of body bytes streamed and a Content-Range          *)
(* "bytes s-e/fileSize" with 0 <= s <= e <= fileSize - 1.                  *)
(***************************************************************************)
C32_RangeHeadersMatchBody ==
    \A i \in 1..Len(sent) :
        (CodeOf(sent[i]) = 206) =>
            /\ sent[i].options.headers.ContentLength = Len(sent[i].body.bytes)
            /\ \E s \in 0..(request.fileSize - 1), e \in 0..(request.fileSize - 1) :
                  /\ s <= e
                  /\ sent[i].options.headers.ContentRange =
                         <<"b", "y", "t", "e", "s", " ">> \o Dec(s) \o <<"-">> \o Dec(e)
                             \o <<"/">> \o Dec(request.fileSize)

(***************************************************************************)
(* C33.  Whenever no login() of the client is executing (none is awaiting  *)
(* getLoginParameters), the loggingIn guard is false.                      *)
(***************************************************************************)
C33_GuardReleased == (InFlight = {}) => ~loggingIn

(***************************************************************************)
(* C34.  When passes of one device overlap, a pass never replaces the      *)
(* snapshot of a pass that started after it: result arrays are numbered in *)
(* the order the passes start, and the number of the published array never *)
(* goes down.                                                              *)
(***************************************************************************)
C34_NewerPassWins == [][ftpScanData' >= ftpScanData]_vars

(***************************************************************************)
(* C37.  A published snapshot holds each file at most once: no two of its  *)
(* entries have the same fullPath, also when the folder holds a matching   *)
(* sub-directory that is scanned recursively.                              *)
(***************************************************************************)
NoDuplicates(snapshot) ==
    \A i \in 1..Len(snapshot), j \in 1..Len(snapshot) :
        (snapshot[i].fullPath = snapshot[j].fullPath) => i = j

C37_SnapshotWithoutDuplicates == \A snapshot \in published : NoDuplicates(snapshot)

(***************************************************************************)
(* C38.  A pass that ends with a filesystem error (readdir rejects or      *)
(* statSync throws) leaves the published snapshot as it was: ftpScanData   *)
(* refers to the same array with the same entries, nothing is published,   *)
(* and the pass is over, so that the next firing of the interval starts a  *)
(* new one.                                                                *)
(***************************************************************************)
C38_FailedPassKeepsSnapshot ==
    [][ \A s \in Slots :
          (scan[s].pc # "idle" /\ scan'[s].pc = "idle" /\ lastPass'.outcome # "published") =>
              /\ ftpScanData' = ftpScanData
              /\ heap'[ftpScanData] = heap[ftpScanData]
              /\ published' = published
              /\ scan'[s] = IdleScan ]_vars

\* A pass has failed on statSync after an earlier pass published entries,
\* which are still the snapshot.
C38_Witness ==
    /\ lastPass.outcome = "stat"
    /\ ftpScanData # 0
    /\ Len(heap[ftpScanData]) >= 2
    /\ \A s \in Slots : scan[s] = IdleScan

(***************************************************************************)
(* C35.  A live handler has at most one active scan timer, and it has one  *)
(* exactly when ftp is enabled and ftpFolder is set.                       *)
(***************************************************************************)
C35_OneTimerIffFtp ==
    (mixinPc = "live" /\ mixinRevision = "scan") =>
        /\ Cardinality(intervals) <= 1
        /\ (intervals # {}) <=> (storage.ftp /\ storage.ftpFolder)

(***************************************************************************)
(* C36.  After release the handler has no active timer, so that no scan    *)
(* pass and no token refresh starts, and the registry does not hold it.    *)
(***************************************************************************)
C36_ReleaseCancelsAll ==
    (mixinPc = "released") => (intervals = {} /\ ~registered)

(***************************************************************************)
(* C39.  For a local-file device the videoclip webhook sends the bytes of  *)
(* a file only when the path in params is an entry of the device's         *)
(* snapshot, under its ftpFolder.                                          *)
(***************************************************************************)
C39_OnlySnapshotFilesServed ==
    \A i \in 1..Len(sent) :
        (sent[i].body.kind = "bytes") => request.url.params.videoclipPath \in SnapshotPaths

=============================================================================
